---- MODULE Spec2Model ----
(***************************************************************************)
(* Content Health Analyzer and Key-Point Ranker of src/web.py.             *)
(*                                                                         *)
(* A text (Python str) is a sequence of characters.  An ASCII character is *)
(* the one-character string of itself; a code point outside ASCII is the   *)
(* string "U+<hex>".  Scores are Python floats whose values are whole      *)
(* numbers (every step adds or subtracts a whole number), kept here as     *)
(* integers; overall_score is kept in exact tenths (overall_score_x10).    *)
(***************************************************************************)
EXTENDS Integers, Sequences, FiniteSets, TLC

VARIABLES
    analyzers,   \* instance id -> fields of a ContentHealthAnalyzer object
    caption,     \* the caption handed to the analyzer in this run
    content,     \* the long-form text handed to extract_key_points
    calls,       \* the calls made so far, oldest first, with what they returned
    frame        \* the locals of the call that is being run step by step

vars == <<analyzers, caption, content, calls, frame>>

(***************************************************************************)
(* Bounds of the checked instances.                                        *)
(***************************************************************************)
MaxParts == 2        \* a caption is built from at most this many parts
MaxCalls == 3        \* analyze calls per run in SpecCalls
MaxSentences == 4    \* a long-form text has at most this many fragments
MaxPoints == 2       \* max_points ranges over 0..MaxPoints
MaxKeyPoints == 8    \* the composer is handed at most this many key points
MaxCount == 2        \* generate_captions is asked for at most this many captions
MaxPlainSentences == 6  \* a text of short sentences has at most this many
MaxSlidePoints == 10 \* the composers of SpecComposers are handed at most this many key points

(***************************************************************************)
(* Characters and the character classes of the regular expressions.        *)
(***************************************************************************)
Upper == {"A","B","C","D","E","F","G","H","I","J","K","L","M","N","O","P","Q","R","S","T","U","V","W","X","Y","Z"}
Lower == {"a","b","c","d","e","f","g","h","i","j","k","l","m","n","o","p","q","r","s","t","u","v","w","x","y","z"}
Digit == {"0","1","2","3","4","5","6","7","8","9"}

\* Letters of the model outside ASCII (U+E9 is e with acute accent).
OtherLetters == {"U+E9"}

\* \w of the re module on str: letters, digits and the underscore
WordChars == Upper \cup Lower \cup Digit \cup {"_"} \cup OtherLetters

\* what str.split() and str.strip() treat as white space: the characters c
\* with c.isspace(), U+9..U+D, U+1C..U+1F, U+20, U+85, U+A0 and the spaces of
\* the general punctuation block
Whitespace ==
    {" ", "\t", "\n", "\r", "\f", "U+B", "U+1C", "U+1D", "U+1E", "U+1F", "U+85", "U+A0",
     "U+1680", "U+2000", "U+2001", "U+2002", "U+2003", "U+2004", "U+2005", "U+2006", "U+2007",
     "U+2008", "U+2009", "U+200A", "U+2028", "U+2029", "U+202F", "U+205F", "U+3000"}

\* [.!?]
Terminators == {".", "!", "?"}

\* [!?]
Shouts == {"!", "?"}

\* Code points of the model that lie in the four ranges of the emoji class
\* U+1F600-1F64F, U+1F300-1F5FF, U+1F680-1F6FF, U+1F1E0-1F1FF.
EmojiChars == {"U+1F600", "U+1F64F", "U+1F300", "U+1F389", "U+1F5FF", "U+1F680", "U+1F6FF", "U+1F1E0", "U+1F1FF"}

\* Symbols of the model outside ASCII and outside the emoji class (U+2764 is
\* the heavy black heart): neither \w nor white space nor emoji.
OtherSymbols == {"U+2764"}

\* [a-zA-Z] | [0-9] | [$-_@.&+] | [!*\\(\\),] | %hh : the range $-_ is U+24..U+5F
UrlChars == Upper \cup Lower \cup Digit \cup
    {"$","%","&","'","(",")","*","+",",","-",".","/",":",";","<","=",">","?","@","[","\\","]","^","_","!"}

LowerOf ==
    "A" :> "a" @@ "B" :> "b" @@ "C" :> "c" @@ "D" :> "d" @@ "E" :> "e" @@ "F" :> "f" @@ "G" :> "g" @@
    "H" :> "h" @@ "I" :> "i" @@ "J" :> "j" @@ "K" :> "k" @@ "L" :> "l" @@ "M" :> "m" @@ "N" :> "n" @@
    "O" :> "o" @@ "P" :> "p" @@ "Q" :> "q" @@ "R" :> "r" @@ "S" :> "s" @@ "T" :> "t" @@ "U" :> "u" @@
    "V" :> "v" @@ "W" :> "w" @@ "X" :> "x" @@ "Y" :> "y" @@ "Z" :> "z"

\* str.lower()
lower(s) == SubSeq([i \in 1..Len(s) |-> IF s[i] \in Upper THEN LowerOf[s[i]] ELSE s[i]], 1, Len(s))

Min(a, b) == IF a <= b THEN a ELSE b
Max(a, b) == IF a >= b THEN a ELSE b

\* the values of a list or dictionary
Range(f) == {f[k] : k \in DOMAIN f}

\* the sequences of a list put end to end
RECURSIVE Concat(_)
Concat(seqs) ==
    IF seqs = <<>> THEN <<>>
    ELSE IF Len(seqs) = 1 THEN seqs[1]
    ELSE LET half == Len(seqs) \div 2
         IN  Concat(SubSeq(seqs, 1, half)) \o Concat(SubSeq(seqs, half + 1, Len(seqs)))

(***************************************************************************)
(* Matching.  A mask marks the positions of a text whose character is in   *)
(* (or not in) a class; a run is a maximal stretch of marked positions.    *)
(***************************************************************************)
Mask(s, class) == SubSeq([i \in 1..Len(s) |-> s[i] \in class], 1, Len(s))
NotMask(s, class) == SubSeq([i \in 1..Len(s) |-> s[i] \notin class], 1, Len(s))

RunStarts(m) == {i \in 1..Len(m) : m[i] /\ (i = 1 \/ ~m[i-1])}

\* the last position of the run that holds position i
RunEnd(m, i) ==
    CHOOSE j \in i..Len(m) : (j = Len(m) \/ ~m[j+1]) /\ \A k \in i..j : m[k]

\* number of runs of at least n marked positions: len(re.findall(r'[class]{n,}', s))
CountRuns(m, n) == Cardinality({i \in RunStarts(m) : RunEnd(m, i) - i + 1 >= n})

\* w in s, for str
Contains(s, w) ==
    \E i \in 1..(Len(s) - Len(w) + 1) : \A j \in 1..Len(w) : s[i + j - 1] = w[j]

\* the number of places of s at which a word of the list stands
CountOccurrences(words, s) ==
    Cardinality({<<k, i>> \in (1..Len(words)) \X (1..Len(s)) :
                    /\ i + Len(words[k]) - 1 <= Len(s)
                    /\ \A j \in 1..Len(words[k]) : s[i + j - 1] = words[k][j]})

\* sum(1 for word in words if word in s)
CountContained(words, s) == Cardinality({k \in 1..Len(words) : Contains(s, words[k])})

\* len(s.split())
WordCount(s) == Cardinality(RunStarts(NotMask(s, Whitespace)))

\* set(s.split())
WordSet(s) ==
    LET m == NotMask(s, Whitespace)
    IN  {SubSeq(s, i, RunEnd(m, i)) : i \in RunStarts(m)}

\* len(re.findall(r'#\w+', s)) with mark "#", r'@\w+' with mark "@"
CountTagged(s, mark) ==
    Cardinality({i \in 1..(Len(s) - 1) : s[i] = mark /\ s[i+1] \in WordChars})

\* len(re.findall(r'\b\w{12,}\b', s))
CountComplexWords(s) == CountRuns(Mask(s, WordChars), 12)

\* len(re.findall(r'\b[A-Z]{3,}\b', s))
CountCapsWords(s) ==
    LET m == Mask(s, WordChars)
    IN  Cardinality({i \in RunStarts(m) :
            /\ RunEnd(m, i) - i + 1 >= 3
            /\ \A k \in i..RunEnd(m, i) : s[k] \in Upper})

\* the scheme "http", an optional "s", "://" read at position i: the position
\* after it, or 0 when the text at i is no scheme
SchemeEnd(s, i) ==
    LET at(k, c) == k <= Len(s) /\ s[k] = c
        http == at(i, "h") /\ at(i+1, "t") /\ at(i+2, "t") /\ at(i+3, "p")
        tail(k) == at(k, ":") /\ at(k+1, "/") /\ at(k+2, "/")
    IN  IF http /\ at(i+4, "s") /\ tail(i+5) THEN i + 8
        ELSE IF http /\ tail(i+4) THEN i + 7
        ELSE 0

\* len(re.findall(r'http[s]?://(?:...)+', s)).  The characters of the scheme are
\* themselves in the class, and a match runs to the end of the run of class
\* characters it starts in: each such run that holds a scheme followed by one
\* more class character gives exactly one match.
CountUrls(s) ==
    LET m == Mask(s, UrlChars)
        starts(i) == SchemeEnd(s, i) # 0 /\ SchemeEnd(s, i) <= Len(s) /\ m[SchemeEnd(s, i)]
    IN  Cardinality({r \in RunStarts(m) : \E i \in r..RunEnd(m, r) : starts(i)})

CountChar(s, c) == Cardinality({i \in 1..Len(s) : s[i] = c})

(***************************************************************************)
(* ContentHealthAnalyzer.__init__: the fields of a new analyzer.           *)
(***************************************************************************)
instagram == <<"i","n","s","t","a","g","r","a","m">>
facebook == <<"f","a","c","e","b","o","o","k">>
twitter == <<"t","w","i","t","t","e","r">>
linkedin == <<"l","i","n","k","e","d","i","n">>
tiktok == <<"t","i","k","t","o","k">>

platform_guidelines ==
    instagram :> [optimal_length |-> <<100, 300>>, max_hashtags |-> 30, optimal_hashtags |-> <<10, 20>>,
                  emoji_friendly |-> TRUE, questions_boost |-> TRUE, cta_important |-> TRUE] @@
    facebook :>  [optimal_length |-> <<40, 200>>, max_hashtags |-> 5, optimal_hashtags |-> <<1, 3>>,
                  emoji_friendly |-> TRUE, questions_boost |-> TRUE, cta_important |-> TRUE] @@
    twitter :>   [optimal_length |-> <<71, 240>>, max_hashtags |-> 3, optimal_hashtags |-> <<1, 2>>,
                  emoji_friendly |-> TRUE, questions_boost |-> TRUE, cta_important |-> FALSE] @@
    linkedin :>  [optimal_length |-> <<150, 400>>, max_hashtags |-> 10, optimal_hashtags |-> <<3, 5>>,
                  emoji_friendly |-> FALSE, questions_boost |-> TRUE, cta_important |-> TRUE] @@
    tiktok :>    [optimal_length |-> <<50, 150>>, max_hashtags |-> 10, optimal_hashtags |-> <<3, 7>>,
                  emoji_friendly |-> TRUE, questions_boost |-> TRUE, cta_important |-> TRUE]

engagement_words_high ==
    << <<"a","m","a","z","i","n","g">>,
       <<"i","n","c","r","e","d","i","b","l","e">>,
       <<"a","w","e","s","o","m","e">>,
       <<"f","a","n","t","a","s","t","i","c">>,
       <<"p","e","r","f","e","c","t">>,
       <<"l","o","v","e">>,
       <<"b","e","a","u","t","i","f","u","l">>,
       <<"s","t","u","n","n","i","n","g">> >>

engagement_words_medium ==
    << <<"g","r","e","a","t">>,
       <<"g","o","o","d">>,
       <<"n","i","c","e">>,
       <<"c","o","o","l">>,
       <<"i","n","t","e","r","e","s","t","i","n","g">>,
       <<"w","o","n","d","e","r","f","u","l">>,
       <<"e","x","c","e","l","l","e","n","t">> >>

engagement_words_cta ==
    << <<"c","o","m","m","e","n","t">>,
       <<"s","h","a","r","e">>,
       <<"l","i","k","e">>,
       <<"f","o","l","l","o","w">>,
       <<"s","u","b","s","c","r","i","b","e">>,
       <<"s","a","v","e">>,
       <<"t","a","g">>,
       <<"d","m">>,
       <<"c","l","i","c","k">>,
       <<"s","w","i","p","e">> >>

engagement_words ==
    [high |-> engagement_words_high, medium |-> engagement_words_medium, cta |-> engagement_words_cta]

ContentHealthAnalyzer_init ==
    [platform_guidelines |-> platform_guidelines, engagement_words |-> engagement_words]

(***************************************************************************)
(* ContentHealthAnalyzer.extract_features                                  *)
(***************************************************************************)
\* cta_words with an empty entry at its end
cta_words_with_blank ==
    << <<"c","o","m","m","e","n","t">>,
       <<"s","h","a","r","e">>,
       <<"l","i","k","e">>,
       <<"f","o","l","l","o","w">>,
       <<"s","u","b","s","c","r","i","b","e">>,
       <<"s","a","v","e">>,
       <<"t","a","g">>,
       <<"d","m">>,
       <<"c","l","i","c","k">>,
       <<"s","w","i","p","e">>,
       <<"l","i","n","k"," ","i","n"," ","b","i","o">>,
       <<>> >>

cta_words ==
    << <<"c","o","m","m","e","n","t">>,
       <<"s","h","a","r","e">>,
       <<"l","i","k","e">>,
       <<"f","o","l","l","o","w">>,
       <<"s","u","b","s","c","r","i","b","e">>,
       <<"s","a","v","e">>,
       <<"t","a","g">>,
       <<"d","m">>,
       <<"c","l","i","c","k">>,
       <<"s","w","i","p","e">>,
       <<"l","i","n","k"," ","i","n"," ","b","i","o">> >>

extract_features(text) ==
    [word_count |-> WordCount(text),
     character_count |-> Len(text),
     sentence_count |-> CountRuns(Mask(text, Terminators), 1),
     emoji_count |-> Cardinality({i \in 1..Len(text) : text[i] \in EmojiChars}),
     hashtag_count |-> CountTagged(text, "#"),
     mention_count |-> CountTagged(text, "@"),
     url_count |-> CountUrls(text),
     question_marks |-> CountChar(text, "?"),
     exclamation_marks |-> CountChar(text, "!"),
     cta_present |-> \E k \in 1..Len(cta_words) : Contains(lower(text), cta_words[k]),
     question_present |-> \E i \in 1..Len(text) : text[i] = "?"]

(***************************************************************************)
(* Feedback messages.  A message is its fixed text with the values its     *)
(* f-string interpolates: the platform as given and up to two numbers.     *)
(***************************************************************************)
Msg(text, platform, a, b) == [text |-> text, platform |-> platform, a |-> a, b |-> b]
Note(text) == Msg(text, <<>>, 0, 0)

(***************************************************************************)
(* ContentHealthAnalyzer.calculate_readability_score                       *)
(***************************************************************************)
\* if caps_words > 1
caps_abuse_any(caps_words) == caps_words >= 1

\* if caps_words > 2
caps_abuse_over_two(caps_words) == caps_words > 2

caps_abuse(caps_words) == caps_words > 1

\* if avg_sentence_length > 20, with avg_sentence_length = word_count / sentence_count
too_long_from_20(word_count, sentence_count) == word_count >= 20 * sentence_count

too_long(word_count, sentence_count) == word_count > 20 * sentence_count

\* lines = text.split('\n'); if len(lines) > 1
several_lines_always(text) == CountChar(text, "\n") + 1 > 0

several_lines(text) == CountChar(text, "\n") + 1 > 1

\* the scorer with the frame of calculate_engagement_score: it starts from 0.0
\* and returns min(score, 100)
calculate_readability_score_capped(text, features) ==
    LET wc == features.word_count
        sc == features.sentence_count
        long == sc > 0 /\ too_long(wc, sc)
        complex_words == CountComplexWords(text)
        caps_words == CountCapsWords(text)
        excessive_punct == CountRuns(Mask(text, Shouts), 3)
        score == 0
                 - (IF long THEN 15 ELSE 0)
                 - (IF complex_words > 2 THEN 10 ELSE 0)
                 - (IF caps_abuse(caps_words) THEN 20 ELSE 0)
                 - (IF excessive_punct > 0 THEN 15 ELSE 0)
                 + (IF several_lines(text) THEN 5 ELSE 0)
    IN  [score |-> Min(score, 100), issues |-> <<>>, strengths |-> <<>>]

calculate_readability_score(text, features) ==
    LET wc == features.word_count
        sc == features.sentence_count
        \* avg_sentence_length = wc / sc, compared with 20 and with 15
        long == sc > 0 /\ too_long(wc, sc)
        short == sc > 0 /\ ~long /\ wc <= 15 * sc
        complex_words == CountComplexWords(text)
        caps_words == CountCapsWords(text)
        excessive_punct == CountRuns(Mask(text, Shouts), 3)
        score == 100
                 - (IF long THEN 15 ELSE 0)
                 - (IF complex_words > 2 THEN 10 ELSE 0)
                 - (IF caps_abuse(caps_words) THEN 20 ELSE 0)
                 - (IF excessive_punct > 0 THEN 15 ELSE 0)
                 + (IF several_lines(text) THEN 5 ELSE 0)
        issues ==
            (IF long THEN <<Note("Sentences are too long. Aim for 15-20 words per sentence.")>> ELSE <<>>)
            \o (IF complex_words > 2 THEN <<Note("Too many complex words. Use simpler alternatives.")>> ELSE <<>>)
            \o (IF caps_abuse(caps_words) THEN <<Note("Avoid excessive ALL CAPS - it appears aggressive")>> ELSE <<>>)
            \o (IF excessive_punct > 0 THEN <<Note("Avoid excessive punctuation (!!!, ???)")>> ELSE <<>>)
        strengths ==
            (IF short THEN <<Note("Good sentence length for readability")>> ELSE <<>>)
            \o (IF ~caps_abuse(caps_words) /\ caps_words = 0 THEN <<Note("Good use of capitalization")>> ELSE <<>>)
            \o (IF several_lines(text) THEN <<Note("Good use of line breaks for structure")>> ELSE <<>>)
    IN  [score |-> Max(0, score), issues |-> issues, strengths |-> strengths]

(***************************************************************************)
(* ContentHealthAnalyzer.calculate_engagement_score                        *)
(***************************************************************************)
\* the scorer that still rewards six emojis
calculate_engagement_score_upto6(self, text, features, image_description) ==
    LET text_lower == lower(text)
        high_emotion_count == CountContained(self.engagement_words.high, text_lower)
        medium_emotion_count == CountContained(self.engagement_words.medium, text_lower)
        emotion_score == (high_emotion_count * 10) + (medium_emotion_count * 5)
        emoji_count == features.emoji_count
        few_emojis == emoji_count > 0 /\ emoji_count <= 6
        with_image == Len(image_description) > 0
        common_words == Cardinality(WordSet(text_lower) \cap WordSet(lower(image_description)))
        score == 0
                 + Min(emotion_score, 30)
                 + (IF features.question_present THEN 15 ELSE 0)
                 + (IF features.cta_present THEN 20 ELSE 0)
                 + (IF few_emojis THEN 10 ELSE IF emoji_count > 5 THEN -5 ELSE 0)
                 + (IF with_image /\ common_words >= 2 THEN 15 ELSE 0)
        issues ==
            (IF high_emotion_count = 0 /\ medium_emotion_count = 0
                THEN <<Note("Add emotional words to increase engagement")>> ELSE <<>>)
            \o (IF features.question_present THEN <<>>
                ELSE <<Note("Consider adding a question to encourage comments")>>)
            \o (IF features.cta_present THEN <<>>
                ELSE <<Note("Add a call-to-action (like, share, comment)")>>)
            \o (IF few_emojis THEN <<>>
                ELSE IF emoji_count > 5 THEN <<Note("Too many emojis - use 3-5 for best results")>>
                ELSE <<Note("Add 2-3 relevant emojis for visual appeal")>>)
            \o (IF with_image /\ common_words < 2
                THEN <<Note("Ensure text relates to the image content")>> ELSE <<>>)
        strengths ==
            (IF high_emotion_count > 0
                THEN <<Msg("Uses {high_emotion_count} high-impact emotional words", <<>>, high_emotion_count, 0)>>
                ELSE <<>>)
            \o (IF features.question_present THEN <<Note("Includes question to boost engagement")>> ELSE <<>>)
            \o (IF features.cta_present THEN <<Note("Includes clear call-to-action")>> ELSE <<>>)
            \o (IF few_emojis THEN <<Note("Good emoji usage for visual appeal")>> ELSE <<>>)
            \o (IF with_image /\ common_words >= 2 THEN <<Note("Good text-image alignment")>> ELSE <<>>)
    IN  [score |-> Min(score, 100), issues |-> issues, strengths |-> strengths]

\* score += emotion_score
uncapped_emotion(emotion_score) == emotion_score

\* score += min(emotion_score, 30)
capped_emotion(emotion_score) == Min(emotion_score, 30)

calculate_engagement_score(self, text, features, image_description) ==
    LET text_lower == lower(text)
        high_emotion_count == CountContained(self.engagement_words.high, text_lower)
        medium_emotion_count == CountContained(self.engagement_words.medium, text_lower)
        emotion_score == (high_emotion_count * 10) + (medium_emotion_count * 5)
        emoji_count == features.emoji_count
        few_emojis == emoji_count > 0 /\ emoji_count <= 5
        with_image == Len(image_description) > 0
        common_words == Cardinality(WordSet(text_lower) \cap WordSet(lower(image_description)))
        score == 0
                 + capped_emotion(emotion_score)
                 + (IF features.question_present THEN 15 ELSE 0)
                 + (IF features.cta_present THEN 20 ELSE 0)
                 + (IF few_emojis THEN 10 ELSE IF emoji_count > 5 THEN -5 ELSE 0)
                 + (IF with_image /\ common_words >= 2 THEN 15 ELSE 0)
        issues ==
            (IF high_emotion_count = 0 /\ medium_emotion_count = 0
                THEN <<Note("Add emotional words to increase engagement")>> ELSE <<>>)
            \o (IF features.question_present THEN <<>>
                ELSE <<Note("Consider adding a question to encourage comments")>>)
            \o (IF features.cta_present THEN <<>>
                ELSE <<Note("Add a call-to-action (like, share, comment)")>>)
            \o (IF few_emojis THEN <<>>
                ELSE IF emoji_count > 5 THEN <<Note("Too many emojis - use 3-5 for best results")>>
                ELSE <<Note("Add 2-3 relevant emojis for visual appeal")>>)
            \o (IF with_image /\ common_words < 2
                THEN <<Note("Ensure text relates to the image content")>> ELSE <<>>)
        strengths ==
            (IF high_emotion_count > 0
                THEN <<Msg("Uses {high_emotion_count} high-impact emotional words", <<>>, high_emotion_count, 0)>>
                ELSE <<>>)
            \o (IF features.question_present THEN <<Note("Includes question to boost engagement")>> ELSE <<>>)
            \o (IF features.cta_present THEN <<Note("Includes clear call-to-action")>> ELSE <<>>)
            \o (IF few_emojis THEN <<Note("Good emoji usage for visual appeal")>> ELSE <<>>)
            \o (IF with_image /\ common_words >= 2 THEN <<Note("Good text-image alignment")>> ELSE <<>>)
    IN  [score |-> Min(score, 100), issues |-> issues, strengths |-> strengths]

(***************************************************************************)
(* ContentHealthAnalyzer.calculate_platform_score                          *)
(***************************************************************************)
\* dict.get(key, default)
\* dict.get that answers a missing key with the tiktok entry
get_or_tiktok(dict, key, default) == IF key \in DOMAIN dict THEN dict[key] ELSE dict[tiktok]

get(dict, key, default) == IF key \in DOMAIN dict THEN dict[key] ELSE default

\* the scorer that takes every count above the optimal range for too many
calculate_platform_score_strict(self, text, features, platform) ==
    LET guidelines == get(self.platform_guidelines, lower(platform), self.platform_guidelines[instagram])
        optimal_min == guidelines.optimal_length[1]
        optimal_max == guidelines.optimal_length[2]
        char_count == features.character_count
        hashtag_count == features.hashtag_count
        optimal_hashtag_min == guidelines.optimal_hashtags[1]
        optimal_hashtag_max == guidelines.optimal_hashtags[2]
        length_ok == optimal_min <= char_count /\ char_count <= optimal_max
        hashtags_ok == optimal_hashtag_min <= hashtag_count /\ hashtag_count <= optimal_hashtag_max
        too_few == ~hashtags_ok /\ hashtag_count < optimal_hashtag_min
        too_many == ~hashtags_ok /\ ~too_few /\ hashtag_count > optimal_hashtag_max
        emoji_limit == ~guidelines.emoji_friendly /\ features.emoji_count > 2
        cta_missing == guidelines.cta_important /\ ~features.cta_present
        score == 100
                 - (IF length_ok THEN 0 ELSE IF char_count < optimal_min THEN 15 ELSE 10)
                 - (IF too_few THEN 10 ELSE IF too_many THEN 20 ELSE 0)
                 - (IF emoji_limit THEN 10 ELSE 0)
                 - (IF cta_missing THEN 15 ELSE 0)
        issues ==
            (IF length_ok THEN <<>>
                ELSE IF char_count < optimal_min
                THEN <<Msg("Too short for {platform}. Aim for {optimal_min}-{optimal_max} characters",
                           platform, optimal_min, optimal_max)>>
                ELSE <<Msg("Too long for {platform}. Aim for {optimal_min}-{optimal_max} characters",
                           platform, optimal_min, optimal_max)>>)
            \o (IF too_few
                THEN <<Msg("Add more hashtags. Use {optimal_hashtag_min}-{optimal_hashtag_max} for {platform}",
                           platform, optimal_hashtag_min, optimal_hashtag_max)>>
                ELSE IF too_many
                THEN <<Msg("Too many hashtags for {platform}. Maximum: {max_hashtags}",
                           platform, guidelines.max_hashtags, 0)>>
                ELSE <<>>)
            \o (IF emoji_limit THEN <<Msg("Limit emojis for {platform} - use sparingly", platform, 0, 0)>> ELSE <<>>)
            \o (IF cta_missing THEN <<Msg("Add call-to-action - important for {platform}", platform, 0, 0)>> ELSE <<>>)
        strengths ==
            (IF length_ok
                THEN <<Msg("Perfect length for {platform} ({char_count} characters)", platform, char_count, 0)>>
                ELSE <<>>)
            \o (IF hashtags_ok THEN <<Msg("Good hashtag count for {platform}", platform, 0, 0)>> ELSE <<>>)
    IN  [score |-> Max(0, score), issues |-> issues, strengths |-> strengths]

calculate_platform_score(self, text, features, platform) ==
    LET guidelines == get(self.platform_guidelines, lower(platform), self.platform_guidelines[instagram])
        optimal_min == guidelines.optimal_length[1]
        optimal_max == guidelines.optimal_length[2]
        char_count == features.character_count
        hashtag_count == features.hashtag_count
        optimal_hashtag_min == guidelines.optimal_hashtags[1]
        optimal_hashtag_max == guidelines.optimal_hashtags[2]
        length_ok == optimal_min <= char_count /\ char_count <= optimal_max
        hashtags_ok == optimal_hashtag_min <= hashtag_count /\ hashtag_count <= optimal_hashtag_max
        too_few == ~hashtags_ok /\ hashtag_count < optimal_hashtag_min
        too_many == ~hashtags_ok /\ ~too_few /\ hashtag_count > guidelines.max_hashtags
        emoji_limit == ~guidelines.emoji_friendly /\ features.emoji_count > 2
        cta_missing == guidelines.cta_important /\ ~features.cta_present
        score == 100
                 - (IF length_ok THEN 0 ELSE IF char_count < optimal_min THEN 15 ELSE 10)
                 - (IF too_few THEN 10 ELSE IF too_many THEN 20 ELSE 0)
                 - (IF emoji_limit THEN 10 ELSE 0)
                 - (IF cta_missing THEN 15 ELSE 0)
        issues ==
            (IF length_ok THEN <<>>
                ELSE IF char_count < optimal_min
                THEN <<Msg("Too short for {platform}. Aim for {optimal_min}-{optimal_max} characters",
                           platform, optimal_min, optimal_max)>>
                ELSE <<Msg("Too long for {platform}. Aim for {optimal_min}-{optimal_max} characters",
                           platform, optimal_min, optimal_max)>>)
            \o (IF too_few
                THEN <<Msg("Add more hashtags. Use {optimal_hashtag_min}-{optimal_hashtag_max} for {platform}",
                           platform, optimal_hashtag_min, optimal_hashtag_max)>>
                ELSE IF too_many
                THEN <<Msg("Too many hashtags for {platform}. Maximum: {max_hashtags}",
                           platform, guidelines.max_hashtags, 0)>>
                ELSE <<>>)
            \o (IF emoji_limit THEN <<Msg("Limit emojis for {platform} - use sparingly", platform, 0, 0)>> ELSE <<>>)
            \o (IF cta_missing THEN <<Msg("Add call-to-action - important for {platform}", platform, 0, 0)>> ELSE <<>>)
        strengths ==
            (IF length_ok
                THEN <<Msg("Perfect length for {platform} ({char_count} characters)", platform, char_count, 0)>>
                ELSE <<>>)
            \o (IF hashtags_ok THEN <<Msg("Good hashtag count for {platform}", platform, 0, 0)>> ELSE <<>>)
    IN  [score |-> Max(0, score), issues |-> issues, strengths |-> strengths]

(***************************************************************************)
(* ContentHealthAnalyzer.analyze_content: the ContentAnalysis it returns.  *)
(***************************************************************************)
\* ten times the sum with the weights of readability and engagement exchanged
overall_score_x10_swapped(readability_score, engagement_score, platform_score) ==
    readability_score * 4 + engagement_score * 3 + platform_score * 3

\* ten times readability_score * 0.3 + engagement_score * 0.4 + platform_score * 0.3
overall_score_x10(readability_score, engagement_score, platform_score) ==
    readability_score * 3 + engagement_score * 4 + platform_score * 3

analyze_content(self, caption_, image_description, platform) ==
    LET features == extract_features(caption_)
        readability == calculate_readability_score(caption_, features)
        engagement == calculate_engagement_score(self, caption_, features, image_description)
        platform_fit == calculate_platform_score(self, caption_, features, platform)
    IN  [readability_score |-> readability.score,
         engagement_score |-> engagement.score,
         platform_score |-> platform_fit.score,
         overall_score_x10 |-> overall_score_x10(readability.score, engagement.score, platform_fit.score),
         word_count |-> features.word_count,
         character_count |-> features.character_count,
         emoji_count |-> features.emoji_count,
         hashtag_count |-> features.hashtag_count,
         cta_present |-> features.cta_present,
         question_present |-> features.question_present,
         improvements |-> readability.issues \o engagement.issues \o platform_fit.issues,
         warnings |-> <<>>,
         strengths |-> readability.strengths \o engagement.strengths \o platform_fit.strengths]

(***************************************************************************)
(* BlogToSocialConverter.extract_key_points                                *)
(***************************************************************************)
\* the k-th smallest element of a set of numbers
Nth(S, k) == CHOOSE x \in S : Cardinality({y \in S : y < x}) = k - 1

\* str.strip()
strip(s) ==
    LET inked == {i \in 1..Len(s) : s[i] \notin Whitespace}
    IN  IF inked = {} THEN <<>>
        ELSE SubSeq(s, CHOOSE a \in inked : \A i \in inked : a <= i,
                       CHOOSE b \in inked : \A i \in inked : b >= i)

\* re.split(r'[.!?]+', text), without the empty strings it yields for a text
\* that starts or ends with a terminator (or is empty): the pieces between
\* the runs of terminators, in text order
split_sentences(text) ==
    LET m == NotMask(text, Terminators)
        starts == RunStarts(m)
    IN  [k \in 1..Cardinality(starts) |-> SubSeq(text, Nth(starts, k), RunEnd(m, Nth(starts, k)))]

\* [s.strip() for s in sentences if len(s.strip()) > 20]
LongEnough_2(s) == Len(s) > 2

LongEnough(s) == Len(s) > 20
qualifying_sentences(text) ==
    LET pieces == split_sentences(text)
    IN  SelectSeq([k \in 1..Len(pieces) |-> strip(pieces[k])], LongEnough)

key_indicators ==
    << <<"i","m","p","o","r","t","a","n","t">>,
       <<"k","e","y">>,
       <<"e","s","s","e","n","t","i","a","l">>,
       <<"c","r","u","c","i","a","l">>,
       <<"s","i","g","n","i","f","i","c","a","n","t">>,
       <<"m","a","i","n">>,
       <<"p","r","i","m","a","r","y">>,
       <<"f","i","r","s","t">>,
       <<"s","e","c","o","n","d">>,
       <<"t","h","i","r","d">>,
       <<"f","i","n","a","l","l","y">>,
       <<"c","o","n","c","l","u","s","i","o","n">>,
       <<"r","e","s","u","l","t">>,
       <<"b","e","n","e","f","i","t">>,
       <<"a","d","v","a","n","t","a","g","e">>,
       <<"s","o","l","u","t","i","o","n">>,
       <<"t","i","p">>,
       <<"s","t","r","a","t","e","g","y">>,
       <<"m","e","t","h","o","d">>,
       <<"a","p","p","r","o","a","c","h">> >>

\* the score of sentence number i (from 0) of the list sentences
sentence_score(sentences, i) ==
    LET sentence == sentences[i + 1]
        n == Len(sentences)
        word_count == WordCount(sentence)
    IN  2 * CountContained(key_indicators, lower(sentence))
        + (IF 10 <= word_count /\ word_count <= 25 THEN 1 ELSE 0)
        \* i < n * 0.2, elif i > n * 0.8: the float products compare as the exact ones
        + (IF 5 * i < n THEN 1 ELSE IF 5 * i > 4 * n THEN 1 ELSE 0)
        + (IF \E k \in 1..Len(sentence) : sentence[k] \in Digit THEN 1 ELSE 0)

\* the list scored_sentences before the sort; i is the place in the text
scored_sentences(text) ==
    LET sentences == qualifying_sentences(text)
    IN  SubSeq([k \in 1..Len(sentences) |->
                   [score |-> sentence_score(sentences, k - 1), sentence |-> sentences[k], i |-> k - 1]],
               1, Len(sentences))

\* sorted(scored, key=lambda x: x[0])[::-1]: highest score first, entries of
\* equal score in the reverse of the order they had
sort_by_score_then_reverse(scored) ==
    LET n == Len(scored)
        before(a, b) == scored[a].score > scored[b].score \/ (scored[a].score = scored[b].score /\ a > b)
        place == SubSeq([a \in 1..n |-> 1 + Cardinality({b \in 1..n : before(b, a)})], 1, n)
    IN  [k \in 1..n |-> scored[CHOOSE a \in 1..n : place[a] = k]]

\* list.sort(key=lambda x: x[0], reverse=True): the stable sort, highest score
\* first, entries of equal score in the order they had
sort_by_score_reverse(scored) ==
    LET n == Len(scored)
        before(a, b) == scored[a].score > scored[b].score \/ (scored[a].score = scored[b].score /\ a < b)
        place == SubSeq([a \in 1..n |-> 1 + Cardinality({b \in 1..n : before(b, a)})], 1, n)
    IN  [k \in 1..n |-> scored[CHOOSE a \in 1..n : place[a] = k]]

\* list[:n - 1]
slice_to_before(list, n) ==
    IF n >= 1 THEN SubSeq(list, 1, Min(n - 1, Len(list)))
    ELSE SubSeq(list, 1, Max(0, Len(list) + n - 1))

\* list[:n]
slice_to(list, n) ==
    IF n >= 0 THEN SubSeq(list, 1, Min(n, Len(list)))
    ELSE SubSeq(list, 1, Max(0, Len(list) + n))

\* scored_sentences[:max_points] after the sort
ranked_key_points(text, max_points) ==
    slice_to(sort_by_score_reverse(scored_sentences(text)), max_points)

\* [sentence for score, sentence in top]
sentences_of(top) == SubSeq([k \in 1..Len(top) |-> top[k].sentence], 1, Len(top))

\* the places in the text of the entries of top
places_of(top) == SubSeq([k \in 1..Len(top) |-> top[k].i], 1, Len(top))

extract_key_points(text, max_points) == sentences_of(ranked_key_points(text, max_points))

(***************************************************************************)
(* BlogToSocialConverter: the composer of platform posts                   *)
(***************************************************************************)
\* self.platform_specs
platform_specs ==
    instagram :> [max_chars |-> 2200, optimal_chars |-> <<150, 300>>, hashtag_limit |-> 30,
        optimal_hashtags |-> <<10, 20>>, emoji_friendly |-> TRUE,
        post_types |-> <<"single_post", "carousel", "story">>] @@
    facebook :> [max_chars |-> 63206, optimal_chars |-> <<100, 400>>, hashtag_limit |-> 5,
        optimal_hashtags |-> <<1, 3>>, emoji_friendly |-> TRUE,
        post_types |-> <<"single_post", "long_form">>] @@
    twitter :> [max_chars |-> 280, optimal_chars |-> <<71, 240>>, hashtag_limit |-> 3,
        optimal_hashtags |-> <<1, 2>>, emoji_friendly |-> TRUE,
        post_types |-> <<"single_tweet", "thread">>] @@
    linkedin :> [max_chars |-> 3000, optimal_chars |-> <<200, 600>>, hashtag_limit |-> 10,
        optimal_hashtags |-> <<3, 5>>, emoji_friendly |-> FALSE,
        post_types |-> <<"single_post", "article_promo">>] @@
    tiktok :> [max_chars |-> 150, optimal_chars |-> <<50, 120>>, hashtag_limit |-> 10,
        optimal_hashtags |-> <<3, 7>>, emoji_friendly |-> TRUE,
        post_types |-> <<"video_caption">>]

\* self.voice_templates
voice_templates ==
    "professional" :> [
        intro_phrases |-> <<
            <<"E","x","p","l","o","r","i","n","g">>,
            <<"D","i","v","i","n","g"," ","i","n","t","o">>,
            <<"U","n","d","e","r","s","t","a","n","d","i","n","g">>,
            <<"A","n","a","l","y","z","i","n","g">>>>,
        transition_phrases |-> <<
            <<"F","u","r","t","h","e","r","m","o","r","e">>,
            <<"A","d","d","i","t","i","o","n","a","l","l","y">>,
            <<"M","o","r","e","o","v","e","r">>,
            <<"K","e","y"," ","i","n","s","i","g","h","t",":">>>>,
        conclusion_phrases |-> <<
            <<"I","n"," ","c","o","n","c","l","u","s","i","o","n">>,
            <<"T","h","e"," ","b","o","t","t","o","m"," ","l","i","n","e">>,
            <<"K","e","y"," ","t","a","k","e","a","w","a","y">>,
            <<"T","o"," ","s","u","m","m","a","r","i","z","e">>>>,
        cta_phrases |-> <<
            <<"S","h","a","r","e"," ","y","o","u","r"," ","t","h","o","u","g","h","t","s">>,
            <<"W","h","a","t","'","s"," ","y","o","u","r"," ","e","x","p","e","r","i","e","n","c","e","?">>,
            <<"C","o","n","n","e","c","t"," ","w","i","t","h"," ","m","e">>,
            <<"L","e","a","r","n"," ","m","o","r","e">>>>] @@
    "casual" :> [
        intro_phrases |-> <<
            <<"S","o"," ","I","'","v","e"," ","b","e","e","n"," ","t","h","i","n","k","i","n","g"," ","a","b","o","u","t">>,
            <<"L","e","t","'","s"," ","t","a","l","k"," ","a","b","o","u","t">>,
            <<"H","e","r","e","'","s"," ","t","h","e"," ","t","h","i","n","g"," ","a","b","o","u","t">>,
            <<"Y","o","u"," ","k","n","o","w"," ","w","h","a","t","'","s"," ","i","n","t","e","r","e","s","t","i","n","g","?">>>>,
        transition_phrases |-> <<
            <<"A","n","d"," ","h","e","r","e","'","s"," ","t","h","e"," ","c","o","o","l"," ","p","a","r","t">>,
            <<"B","u","t"," ","w","a","i","t",","," ","t","h","e","r","e","'","s"," ","m","o","r","e">>,
            <<"P","l","o","t"," ","t","w","i","s","t">>,
            <<"H","e","r","e","'","s"," ","w","h","a","t","'","s"," ","c","r","a","z","y">>>>,
        conclusion_phrases |-> <<
            <<"S","o"," ","y","e","a","h">>,
            <<"B","o","t","t","o","m"," ","l","i","n","e">>,
            <<"L","o","n","g"," ","s","t","o","r","y"," ","s","h","o","r","t">>,
            <<"H","e","r","e","'","s"," ","t","h","e"," ","d","e","a","l">>>>,
        cta_phrases |-> <<
            <<"L","e","t"," ","m","e"," ","k","n","o","w"," ","w","h","a","t"," ","y","o","u"," ","t","h","i","n","k","!">>,
            <<"D","r","o","p"," ","a"," ","c","o","m","m","e","n","t">>,
            <<"T","a","g"," ","a"," ","f","r","i","e","n","d">>,
            <<"W","h","a","t"," ","d","o"," ","y","o","u"," ","t","h","i","n","k","?">>>>] @@
    "educational" :> [
        intro_phrases |-> <<
            <<"T","o","d","a","y"," ","w","e","'","r","e"," ","e","x","p","l","o","r","i","n","g">>,
            <<"L","e","t","'","s"," ","b","r","e","a","k"," ","d","o","w","n">>,
            <<"U","n","d","e","r","s","t","a","n","d","i","n","g">>,
            <<"D","i","d"," ","y","o","u"," ","k","n","o","w">>>>,
        transition_phrases |-> <<
            <<"S","t","e","p"," ","1",":">>,
            <<"N","e","x","t",",">>,
            <<"I","m","p","o","r","t","a","n","t"," ","n","o","t","e",":">>,
            <<"H","e","r","e","'","s"," ","w","h","y"," ","t","h","i","s"," ","m","a","t","t","e","r","s",":">>>>,
        conclusion_phrases |-> <<
            <<"R","e","m","e","m","b","e","r",":">>,
            <<"K","e","y"," ","l","e","a","r","n","i","n","g",":">>,
            <<"T","a","k","e","a","w","a","y",":">>,
            <<"T","o"," ","r","e","c","a","p",":">>>>,
        cta_phrases |-> <<
            <<"S","a","v","e"," ","t","h","i","s"," ","f","o","r"," ","l","a","t","e","r">>,
            <<"S","h","a","r","e"," ","t","o"," ","h","e","l","p"," ","o","t","h","e","r","s">>,
            <<"Q","u","e","s","t","i","o","n","s","?"," ","C","o","m","m","e","n","t"," ","b","e","l","o","w">>,
            <<"W","a","n","t"," ","t","o"," ","l","e","a","r","n"," ","m","o","r","e","?">>>>] @@
    "inspirational" :> [
        intro_phrases |-> <<
            <<"I","m","a","g","i","n","e"," ","i","f">>,
            <<"W","h","a","t"," ","i","f"," ","I"," ","t","o","l","d"," ","y","o","u">>,
            <<"H","e","r","e","'","s"," ","a"," ","p","o","w","e","r","f","u","l"," ","t","r","u","t","h">>,
            <<"S","u","c","c","e","s","s"," ","s","t","o","r","y",":">>>>,
        transition_phrases |-> <<
            <<"B","u","t"," ","h","e","r","e","'","s"," ","t","h","e"," ","m","a","g","i","c">>,
            <<"T","h","e"," ","t","r","a","n","s","f","o","r","m","a","t","i","o","n"," ","h","a","p","p","e","n","s"," ","w","h","e","n">>,
            <<"T","h","i","s"," ","i","s"," ","w","h","e","r","e"," ","i","t"," ","g","e","t","s"," ","e","x","c","i","t","i","n","g">>,
            <<"T","h","e"," ","s","e","c","r","e","t"," ","i","s">>>>,
        conclusion_phrases |-> <<
            <<"Y","o","u"," ","h","a","v","e"," ","t","h","e"," ","p","o","w","e","r"," ","t","o">>,
            <<"Y","o","u","r"," ","j","o","u","r","n","e","y"," ","s","t","a","r","t","s"," ","n","o","w">>,
            <<"B","e","l","i","e","v","e"," ","i","n"," ","y","o","u","r","s","e","l","f">>,
            <<"T","h","e"," ","t","i","m","e"," ","i","s"," ","n","o","w">>>>,
        cta_phrases |-> <<
            <<"T","a","g"," ","s","o","m","e","o","n","e"," ","w","h","o"," ","n","e","e","d","s"," ","t","h","i","s">>,
            <<"S","h","a","r","e"," ","i","f"," ","t","h","i","s"," ","i","n","s","p","i","r","e","d"," ","y","o","u">>,
            <<"W","h","a","t","'","s"," ","y","o","u","r"," ","n","e","x","t"," ","s","t","e","p","?">>,
            <<"R","e","a","d","y"," ","t","o"," ","t","a","k","e"," ","a","c","t","i","o","n","?">>>>]

BlogToSocialConverter_init ==
    [platform_specs |-> platform_specs, voice_templates |-> voice_templates]

\* hashtag_map, in the order of its keys
hashtag_map ==
    <<[key |-> <<"b","u","s","i","n","e","s","s">>,
        tags |-> <<<<"#","b","u","s","i","n","e","s","s">>, <<"#","e","n","t","r","e","p","r","e","n","e","u","r">>, <<"#","s","u","c","c","e","s","s">>, <<"#","g","r","o","w","t","h">>>>],
      [key |-> <<"m","a","r","k","e","t","i","n","g">>,
        tags |-> <<<<"#","m","a","r","k","e","t","i","n","g">>, <<"#","d","i","g","i","t","a","l","m","a","r","k","e","t","i","n","g">>, <<"#","s","o","c","i","a","l","m","e","d","i","a">>, <<"#","b","r","a","n","d","i","n","g">>>>],
      [key |-> <<"t","e","c","h","n","o","l","o","g","y">>,
        tags |-> <<<<"#","t","e","c","h","n","o","l","o","g","y">>, <<"#","t","e","c","h">>, <<"#","i","n","n","o","v","a","t","i","o","n">>, <<"#","d","i","g","i","t","a","l">>>>],
      [key |-> <<"l","i","f","e","s","t","y","l","e">>,
        tags |-> <<<<"#","l","i","f","e","s","t","y","l","e">>, <<"#","m","o","t","i","v","a","t","i","o","n">>, <<"#","i","n","s","p","i","r","a","t","i","o","n">>, <<"#","l","i","f","e">>>>],
      [key |-> <<"e","d","u","c","a","t","i","o","n">>,
        tags |-> <<<<"#","e","d","u","c","a","t","i","o","n">>, <<"#","l","e","a","r","n","i","n","g">>, <<"#","k","n","o","w","l","e","d","g","e">>, <<"#","t","i","p","s">>>>],
      [key |-> <<"h","e","a","l","t","h">>,
        tags |-> <<<<"#","h","e","a","l","t","h">>, <<"#","w","e","l","l","n","e","s","s">>, <<"#","f","i","t","n","e","s","s">>, <<"#","s","e","l","f","c","a","r","e">>>>],
      [key |-> <<"f","i","n","a","n","c","e">>,
        tags |-> <<<<"#","f","i","n","a","n","c","e">>, <<"#","m","o","n","e","y">>, <<"#","i","n","v","e","s","t","i","n","g">>, <<"#","w","e","a","l","t","h">>>>],
      [key |-> <<"p","r","o","d","u","c","t","i","v","i","t","y">>,
        tags |-> <<<<"#","p","r","o","d","u","c","t","i","v","i","t","y">>, <<"#","e","f","f","i","c","i","e","n","c","y">>, <<"#","t","i","m","e","m","a","n","a","g","e","m","e","n","t">>, <<"#","s","u","c","c","e","s","s">>>>]>>

\* generic_hashtags
generic_hashtags ==
    instagram :> <<<<"#","i","n","s","t","a","g","o","o","d">>, <<"#","p","h","o","t","o","o","f","t","h","e","d","a","y">>, <<"#","m","o","t","i","v","a","t","i","o","n">>>> @@
    twitter :> <<<<"#","t","r","e","n","d","i","n","g">>, <<"#","t","i","p","s">>, <<"#","m","o","n","d","a","y","m","o","t","i","v","a","t","i","o","n">>>> @@
    linkedin :> <<<<"#","l","e","a","d","e","r","s","h","i","p">>, <<"#","p","r","o","f","e","s","s","i","o","n","a","l">>, <<"#","n","e","t","w","o","r","k","i","n","g">>>> @@
    facebook :> <<<<"#","i","n","s","p","i","r","a","t","i","o","n">>, <<"#","c","o","m","m","u","n","i","t","y">>, <<"#","s","h","a","r","i","n","g">>>> @@
    tiktok :> <<<<"#","f","y","p">>, <<"#","v","i","r","a","l">>, <<"#","t","i","p","s">>>>

\* the decimal digits, and str(n) for a number n >= 0 put into an f-string
DigitOf == <<"0","1","2","3","4","5","6","7","8","9">>
RECURSIVE str(_)
str(n) == IF n < 10 THEN <<DigitOf[n + 1]>> ELSE str(n \div 10) \o <<DigitOf[(n % 10) + 1]>>

\* sep.join(list)
RECURSIVE join(_, _)
join(sep, list) ==
    IF list = <<>> THEN <<>>
    ELSE IF Len(list) = 1 THEN list[1]
    ELSE list[1] \o sep \o join(sep, Tail(list))

UpperOf == [c \in Lower |-> CHOOSE u \in Upper : LowerOf[u] = c]

\* str.title(): a cased character is upper case after an uncased one (or at
\* the start) and lower case after a cased one
title_case(s) ==
    LET cased(c) == c \in Upper \cup Lower \cup OtherLetters \cup {"U+C9"}
        up(c) == IF c \in Lower THEN UpperOf[c] ELSE IF c = "U+E9" THEN "U+C9" ELSE c
        low(c) == IF c \in Upper THEN LowerOf[c] ELSE IF c = "U+C9" THEN "U+E9" ELSE c
    IN  SubSeq([i \in 1..Len(s) |->
            IF i > 1 /\ cased(s[i-1]) THEN low(s[i]) ELSE up(s[i])], 1, Len(s))

\* point[:limit-3] + "..." for a point longer than limit
\* point[:limit] + "..."
shorten_late(point, limit) ==
    IF Len(point) > limit THEN SubSeq(point, 1, limit) \o <<".",".",".">> ELSE point

shorten(point, limit) ==
    IF Len(point) > limit THEN SubSeq(point, 1, limit - 3) \o <<".",".",".">> ELSE point

\* title.lower() if title else default
title_or(title, default) == IF title # <<>> THEN lower(title) ELSE default

\* the words of re.findall(r'\b\w{4,}\b', content.lower())
hashtag_words(content_) ==
    LET s == lower(content_)
        m == Mask(s, WordChars)
    IN  {SubSeq(s, i, RunEnd(m, i)) : i \in {j \in RunStarts(m) : RunEnd(m, j) - j + 1 >= 4}}

\* tags[:2] of every topic whose key holds a word of the content or is held
\* by one, and generic_hashtags.get(platform, [])[:2]
hashtag_pool(content_, platform) ==
    LET words == hashtag_words(content_)
        hit == {k \in 1..Len(hashtag_map) :
                    \E word \in words : \/ Contains(word, hashtag_map[k].key)
                                        \/ Contains(hashtag_map[k].key, word)}
        generic == get(generic_hashtags, platform, <<>>)
    IN  UNION {{hashtag_map[k].tags[a] : a \in 1..2} : k \in hit}
        \cup {generic[a] : a \in 1..Min(2, Len(generic))}

\* list(hashtags)[:n]: a set is listed in an order the build is free to
\* choose, so every listing without repetition of n of its members (all of
\* them when it has fewer) can be the outcome
listings(S, n) ==
    LET k == Min(Max(n, 0), Cardinality(S))
    IN  {f \in [1..k -> S] : \A a \in 1..k, b \in 1..k : a # b => f[a] # f[b]}

\* the listings of the whole set, whatever the platform allows
hashtag_lists_untrimmed(self, content_, platform) ==
    LET pool == hashtag_pool(content_, platform)
    IN  listings(pool, Cardinality(pool))

\* the lists _generate_hashtags may join into the string it returns
hashtag_lists(self, content_, platform) ==
    listings(hashtag_pool(content_, platform), self.platform_specs[platform].optimal_hashtags[2])

\* _generate_hashtags(content, platform): the strings it may return
_generate_hashtags(self, content_, platform) ==
    {join(<<" ">>, hashtag_list) : hashtag_list \in hashtag_lists(self, content_, platform)}

\* title + " " + " ".join(key_points)
hashtag_source(title, key_points) == title \o <<" ">> \o join(<<" ">>, key_points)

SocialPost(platform, content_, hashtags, post_type, tips) ==
    [platform |-> platform, content |-> content_, hashtags |-> hashtags,
     character_count |-> Len(content_), post_type |-> post_type, tips |-> tips]

\* key_points[:8]
thread_points_8(key_points) == slice_to(key_points, 8)

\* key_points[:7], the points a thread shows
thread_points(key_points) == slice_to(key_points, 7)

\* the thread text of _create_twitter_thread; intro and cta are what
\* random.choice drew from the voice template
thread_content(key_points, title, intro, cta) ==
    LET shown == thread_points(key_points)
        tweet(k) == str(k + 1) \o <<"/"," ">> \o shorten(shown[k], 200) \o <<"\n","\n">>
    IN  <<"U+1F9F5"," ","T","H","R","E","A","D",":"," ">> \o intro \o <<" ">>
            \o title_or(title, <<"t","h","i","s"," ","i","m","p","o","r","t","a","n","t"," ","t","o","p","i","c">>) \o <<"\n","\n">>
        \o Concat([k \in 1..Len(shown) |-> tweet(k)])
        \o str(Len(key_points) + 2) \o <<"/"," ">> \o cta \o <<"\n","\n">>
        \o <<"U+267B","U+FE0F"," ","R","e","t","w","e","e","t"," ","t","h","e"," ","f","i","r","s","t"," ","t","w","e","e","t"," ","i","f"," ","t","h","i","s"," ","w","a","s"," ","h","e","l","p","f","u","l","!">>

_create_twitter_thread(self, key_points, title, voice_template, intro, cta, hashtags) ==
    SocialPost(<<"T","w","i","t","t","e","r">>, thread_content(key_points, title, intro, cta), hashtags, "thread",
        <<"Pin the thread to your profile", "Engage with replies", "Share insights in comments">>)

\* the carousel text of _create_instagram_carousel
carousel_content(key_points, title, intro, cta) ==
    LET shown == slice_to(key_points, 8)
        slide(k) == <<"U+2022"," ","S","l","i","d","e"," ">> \o str(k + 1) \o <<":"," ">> \o shorten(shown[k], 80) \o <<"\n">>
    IN  <<"U+1F4F8"," ","C","A","R","O","U","S","E","L"," ","P","O","S","T",":"," ">> \o intro \o <<" ">>
            \o title_or(title, <<"t","h","i","s"," ","t","o","p","i","c">>) \o <<"\n","\n">>
        \o <<"S","w","i","p","e"," ","f","o","r"," ","t","h","e"," ","c","o","m","p","l","e","t","e"," ","b","r","e","a","k","d","o","w","n","!"," ","U+27A1","U+FE0F","\n","\n">>
        \o <<"S","L","I","D","E"," ","1",":"," ","C","o","v","e","r","/","T","i","t","l","e","\n">>
        \o <<"S","L","I","D","E"," ","2","-">> \o str(Min(Len(key_points) + 1, 10)) \o <<":"," ","K","e","y"," ","p","o","i","n","t","s","\n">>
        \o Concat([k \in 1..Len(shown) |-> slide(k)])
        \o <<"\n","L","A","S","T"," ","S","L","I","D","E",":"," ">> \o cta \o <<"\n">>

_create_instagram_carousel(self, key_points, title, voice_template, intro, cta, hashtags) ==
    SocialPost(<<"I","n","s","t","a","g","r","a","m">>, carousel_content(key_points, title, intro, cta), hashtags, "carousel",
        <<"Design visually appealing slides", "Use consistent colors/fonts", "Include your branding">>)

\* the text _create_single_post builds before it trims it
single_post_content(key_points, title, platform, intro, conclusion, cta) ==
    LET shown == slice_to(key_points, 3)
        item(k) == (IF platform = linkedin THEN <<"U+1F539"," ">> ELSE str(k) \o <<"."," ">>)
                   \o shorten(shown[k], 100) \o <<"\n","\n">>
    IN  intro \o <<" ">> \o title_or(title, <<"t","h","i","s"," ","t","o","p","i","c">>) \o <<".","\n","\n">>
        \o Concat([k \in 1..Len(shown) |-> item(k)])
        \o conclusion \o <<":"," ">>
            \o (IF key_points # <<>> THEN key_points[1] ELSE <<"Q","u","a","l","i","t","y"," ","c","o","n","t","e","n","t"," ","d","r","i","v","e","s"," ","r","e","s","u","l","t","s",".">>)
            \o <<"\n","\n">>
        \o cta

\* the number of newlines that stand immediately before place i
NewlinesBefore(s, i) ==
    CHOOSE d \in 0..(i - 1) :
        /\ \A k \in (i - d)..(i - 1) : s[k] = "\n"
        /\ d = i - 1 \/ s[i - d - 1] # "\n"

\* content.split('\n\n'): the separators are found from left to right, so a
\* run of newlines holds one at every second place from its start
split_blocks(s) ==
    LET seps == {i \in 1..(Len(s) - 1) :
                    s[i] = "\n" /\ s[i + 1] = "\n" /\ NewlinesBefore(s, i) % 2 = 0}
        n == Cardinality(seps)
    IN  SubSeq([k \in 1..(n + 1) |->
                    SubSeq(s, IF k = 1 THEN 1 ELSE Nth(seps, k - 1) + 2,
                              IF k = n + 1 THEN Len(s) ELSE Nth(seps, k) - 1)],
               1, n + 1)

\* lines.pop(-2)
pop_second_from_last(lines) ==
    SubSeq([k \in 1..(Len(lines) - 1) |-> IF k < Len(lines) - 1 THEN lines[k] ELSE lines[k + 1]],
           1, Len(lines) - 1)

\* lines.pop(1)
pop_second(lines) ==
    SubSeq([k \in 1..(Len(lines) - 1) |-> IF k < 2 THEN lines[k] ELSE lines[k + 1]],
           1, Len(lines) - 1)

\* lines.pop(-3)
pop_third_from_last(lines) ==
    SubSeq([k \in 1..(Len(lines) - 1) |-> IF k < Len(lines) - 2 THEN lines[k] ELSE lines[k + 1]],
           1, Len(lines) - 1)

\* the condition of the while loop together with the test that keeps it from
\* breaking: the content is too long and has more than 3 blocks
trims_again(content_, optimal_max) ==
    /\ Len(content_) > optimal_max
    /\ Contains(content_, <<"\n","\n">>)
    /\ Len(split_blocks(content_)) > 3

\* one iteration of the loop that does not break
trim_once(content_) == join(<<"\n","\n">>, pop_third_from_last(split_blocks(content_)))

\* the content when the loop is left
RECURSIVE trim(_, _)
trim(content_, optimal_max) ==
    IF trims_again(content_, optimal_max) THEN trim(trim_once(content_), optimal_max) ELSE content_

\* tips of _create_single_post
single_post_tips(platform) ==
    IF platform = instagram THEN <<"Add a relevant image", "Use Stories to drive traffic", "Engage with comments quickly">>
    ELSE IF platform = linkedin THEN <<"Post during business hours", "Tag relevant connections", "Share industry insights">>
    ELSE IF platform = twitter THEN <<"Tweet during peak hours", "Use trending hashtags", "Engage with replies">>
    ELSE IF platform = facebook THEN <<"Ask questions to boost engagement", "Share to relevant groups", "Use Facebook Insights">>
    ELSE IF platform = tiktok THEN <<"Create engaging video content", "Use trending sounds", "Add text overlays">>
    ELSE <<>>

_create_single_post(self, key_points, title, platform, voice_template, post_type, intro, conclusion, cta, hashtags) ==
    SocialPost(title_case(platform),
        trim(single_post_content(key_points, title, platform, intro, conclusion, cta),
             self.platform_specs[platform].optimal_chars[2]),
        hashtags, post_type, single_post_tips(platform))

\* the exception a dictionary raises for a key it does not have; no text is
\* a list of these two entries
KeyError(key) == <<"KeyError", key>>
IsKeyError(value) == Len(value) = 2 /\ value[1] = "KeyError"

\* create_platform_post, given what random.choice drew (intro, conclusion,
\* cta) and the string _generate_hashtags returned; the two look-ups at its
\* start raise KeyError for a platform or a voice that is no key of the tables
create_platform_post(self, key_points, title, platform, voice, post_type, intro, conclusion, cta, hashtags) ==
    LET voice_template == self.voice_templates[voice]
    IN  IF platform \notin DOMAIN self.platform_specs THEN KeyError(platform)
        ELSE IF voice \notin DOMAIN self.voice_templates THEN KeyError(voice)
        ELSE IF platform = twitter /\ post_type = "thread"
            THEN _create_twitter_thread(self, key_points, title, voice_template, intro, cta, hashtags)
        ELSE IF platform = instagram /\ post_type = "carousel"
            THEN _create_instagram_carousel(self, key_points, title, voice_template, intro, cta, hashtags)
        ELSE _create_single_post(self, key_points, title, platform, voice_template, post_type,
                                 intro, conclusion, cta, hashtags)

(***************************************************************************)
(* content_health_api: the /analyze endpoints                              *)
(***************************************************************************)
\* the characters U+20 .. U+7E in the order of their codes (U+60 is the
\* grave accent)
AsciiChars ==
    <<" ","!","\"","#","$","%","&","'","(",")","*","+",",","-",".","/","0","1","2","3","4","5","6","7","8","9",":",";","<","=",">","?","@","A","B","C","D","E","F","G","H","I","J","K","L","M","N","O","P","Q","R","S","T","U","V","W","X","Y","Z","[","\\","]","^","_","U+60","a","b","c","d","e","f","g","h","i","j","k","l","m","n","o","p","q","r","s","t","u","v","w","x","y","z","{","|","}","~">>

HexDigits == Digit \cup {"a","b","c","d","e","f","A","B","C","D","E","F"}
HexValue(c) ==
    IF c \in Digit THEN CHOOSE n \in 0..9 : DigitOf[n + 1] = c
    ELSE IF c \in {"a","A"} THEN 10 ELSE IF c \in {"b","B"} THEN 11
    ELSE IF c \in {"c","C"} THEN 12 ELSE IF c \in {"d","D"} THEN 13
    ELSE IF c \in {"e","E"} THEN 14 ELSE 15

\* the digits of a number in base 16, as the names of the characters outside
\* printable ASCII write them (U+E9, U+1F600)
HexDigitOf == <<"0","1","2","3","4","5","6","7","8","9","A","B","C","D","E","F">>
RECURSIVE HexOf(_)
HexOf(n) == IF n < 16 THEN HexDigitOf[n + 1] ELSE HexOf(n \div 16) \o HexDigitOf[(n % 16) + 1]

\* chr(n): the character of code point n
chr(n) ==
    IF n >= 32 /\ n <= 126 THEN AsciiChars[n - 31]
    ELSE IF n = 10 THEN "\n" ELSE IF n = 9 THEN "\t" ELSE IF n = 13 THEN "\r"
    ELSE IF n = 12 THEN "\f" ELSE "U+" \o HexOf(n)

\* UTF-8: the bytes 80..BF continue a sequence; C2..DF, E0..EF and F0..F4
\* lead a sequence of 2, 3 and 4 bytes; the second byte of a sequence led by
\* E0, ED, F0 or F4 has a narrower range
utf8_continuation(b) == b >= 128 /\ b <= 191
utf8_length(b) ==
    IF b >= 194 /\ b <= 223 THEN 2 ELSE IF b >= 224 /\ b <= 239 THEN 3
    ELSE IF b >= 240 /\ b <= 244 THEN 4 ELSE 1
utf8_second(lead, b) ==
    /\ b >= (IF lead = 224 THEN 160 ELSE IF lead = 240 THEN 144 ELSE 128)
    /\ b <= (IF lead = 237 THEN 159 ELSE IF lead = 244 THEN 143 ELSE 191)

\* bytes.decode('utf-8', 'replace') on the tokens of a string: a token is the
\* byte of an escape (code) or a character that was no escape (code -1, char).
\* A well-formed sequence gives its character; a byte that leads nothing and
\* the well-formed start of a sequence that is cut short give one U+FFFD.
utf8_decode(tokens) ==
    LET n == Len(tokens)
        code(i) == IF i >= 1 /\ i <= n THEN tokens[i].code ELSE -1
        valid(j) ==
            IF utf8_length(code(j)) = 1 THEN 1
            ELSE IF ~utf8_second(code(j), code(j + 1)) THEN 1
            ELSE IF utf8_length(code(j)) = 2 THEN 2
            ELSE IF ~utf8_continuation(code(j + 2)) THEN 2
            ELSE IF utf8_length(code(j)) = 3 THEN 3
            ELSE IF ~utf8_continuation(code(j + 3)) THEN 3
            ELSE 4
        covered(i) == \E j \in (i - 3)..(i - 1) : i - j < valid(j)
        code_point(i) ==
            IF utf8_length(code(i)) = 2 THEN (code(i) - 192) * 64 + (code(i + 1) - 128)
            ELSE IF utf8_length(code(i)) = 3
                THEN (code(i) - 224) * 4096 + (code(i + 1) - 128) * 64 + (code(i + 2) - 128)
            ELSE (code(i) - 240) * 262144 + (code(i + 1) - 128) * 4096
                    + (code(i + 2) - 128) * 64 + (code(i + 3) - 128)
        piece(i) ==
            IF covered(i) THEN <<>>
            ELSE IF code(i) = -1 THEN <<tokens[i].char>>
            ELSE IF code(i) < 128 THEN <<chr(code(i))>>
            ELSE IF utf8_length(code(i)) > 1 /\ valid(i) = utf8_length(code(i))
                THEN <<chr(code_point(i))>>
            ELSE <<"U+FFFD">>
    IN  Concat(SubSeq([i \in 1..n |-> piece(i)], 1, n))

\* urllib.parse.unquote(s): every % followed by two hex digits stands for the
\* byte of that code, everything else is kept, and the bytes are decoded as
\* UTF-8 with errors='replace'
unquote(s) ==
    LET escape(i) == /\ i >= 1 /\ i + 2 <= Len(s) /\ s[i] = "%"
                     /\ s[i + 1] \in HexDigits /\ s[i + 2] \in HexDigits
        token(i) == IF escape(i)
                        THEN <<[code |-> 16 * HexValue(s[i + 1]) + HexValue(s[i + 2]), char |-> ""]>>
                    ELSE IF escape(i - 1) \/ escape(i - 2) THEN <<>>
                    ELSE <<[code |-> -1, char |-> s[i]]>>
    IN  utf8_decode(Concat(SubSeq([i \in 1..Len(s) |-> token(i)], 1, Len(s))))

\* None: no text is a list of this one entry
Absent == <<"None">>

\* format_analysis_result
format_analysis_result(analysis_result) ==
    [scores |-> [readability |-> analysis_result.readability_score,
                 engagement |-> analysis_result.engagement_score,
                 platform_optimization |-> analysis_result.platform_score,
                 overall_x10 |-> analysis_result.overall_score_x10],
     metrics |-> [word_count |-> analysis_result.word_count,
                  character_count |-> analysis_result.character_count,
                  emoji_count |-> analysis_result.emoji_count,
                  hashtag_count |-> analysis_result.hashtag_count,
                  cta_present |-> analysis_result.cta_present,
                  question_present |-> analysis_result.question_present],
     analysis |-> [improvements |-> analysis_result.improvements,
                   warnings |-> analysis_result.warnings,
                   strengths |-> analysis_result.strengths]]

\* HTTPException(status_code, detail); cause is the exception whose str() the
\* detail quotes
HTTPException(status_code, detail, cause) ==
    [raised |-> "HTTPException", status_code |-> status_code, detail |-> detail, cause |-> cause]

Returned(value) == [raised |-> "", value |-> value]

\* except Exception as e: raise HTTPException(status_code=500, ...); the
\* HTTPException raised in the try block is an Exception too
except_Exception(e) == HTTPException(500, "Analysis failed: {str(e)}", e)

\* the body of the try block of both endpoints, after the arguments are read:
\* what it returns or raises, and the calls of analyzer.analyze_content it made
try_analyze(self, content_, platform, image_description) ==
    IF lower(platform) \notin DOMAIN self.platform_guidelines
    THEN [outcome |-> HTTPException(400, "Unsupported platform. Choose from: {keys}", Absent),
          analysed |-> <<>>]
    ELSE [outcome |-> Returned(format_analysis_result(
                        analyze_content(self, content_, image_description, lower(platform)))),
          analysed |-> <<[caption |-> content_, image_description |-> image_description,
                         platform |-> lower(platform)]>>]

\* what the caller of an endpoint gets: the status and the body
respond(tried) ==
    LET final == IF tried.outcome.raised = "" THEN tried.outcome ELSE except_Exception(tried.outcome)
    IN  [status |-> IF final.raised = "" THEN 200 ELSE final.status_code,
         body |-> final, analysed |-> tried.analysed]

\* GET /analyze: image_description is None when the query has none
analyze_content_get(self, content_, platform, image_description) ==
    respond(try_analyze(self, unquote(content_), platform,
                        IF image_description = Absent THEN <<>> ELSE image_description))

\* request.get(key, default)
request_get(request, key, default) == IF key \in DOMAIN request THEN request[key] ELSE default

\* POST /analyze
analyze_content_post(self, request) ==
    respond(try_analyze(self, request_get(request, "content", <<>>),
                        request_get(request, "platform", instagram),
                        request_get(request, "image_description", <<>>)))

(***************************************************************************)
(* app.py: the text-completion client and the generators that call it      *)
(***************************************************************************)
\* text.replace(old, new): the occurrences of old are replaced from left to
\* right, none overlapping another
RECURSIVE replace(_, _, _)
replace(text, old, new) ==
    IF old = <<>> THEN new \o Concat(SubSeq([i \in 1..Len(text) |-> <<text[i]>> \o new], 1, Len(text)))
    ELSE IF ~Contains(text, old) THEN text
    ELSE LET at(i) == \A j \in 1..Len(old) : text[i + j - 1] = old[j]
             first == CHOOSE i \in 1..(Len(text) - Len(old) + 1) :
                        at(i) /\ \A h \in 1..(i - 1) : ~at(h)
         IN  SubSeq(text, 1, first - 1) \o new
             \o replace(SubSeq(text, first + Len(old), Len(text)), old, new)

\* what requests.post and response.json() do in one call of generate_text:
\* a response with a status code and a decoded body, a timeout, or another
\* exception with its message
Response(status_code, is_list, items) ==
    [kind |-> "response", status_code |-> status_code, is_list |-> is_list, items |-> items,
     message |-> <<>>]
Timeout == [kind |-> "Timeout", status_code |-> 0, is_list |-> FALSE, items |-> <<>>, message |-> <<>>]
Raises(message) ==
    [kind |-> "Exception", status_code |-> 0, is_list |-> FALSE, items |-> <<>>, message |-> message]

\* the list ['a'], the value of 'generated_text' in a response whose JSON
\* holds an array there: it has one element, no text is in it, and it has no
\* method lower()
ListOfText == <<"['a']">>

\* the placeholder generate_text returns for a 200 response without a text
PlaceholderText == <<"G","e","n","e","r","a","t","e","d"," ","c","a","p","t","i","o","n"," ","a","b","o","u","t"," ","t","h","e"," ","t","o","p","i","c">>
ModelLoadingText == <<"M","o","d","e","l"," ","i","s"," ","l","o","a","d","i","n","g",","," ","t","r","y"," ","a","g","a","i","n"," ","i","n"," ","a"," ","m","o","m","e","n","t">>
TimedOutText == <<"R","e","q","u","e","s","t"," ","t","i","m","e","d"," ","o","u","t",","," ","t","r","y"," ","a","g","a","i","n">>

\* HuggingFaceAPI.generate_text(model, prompt, max_length), given what the
\* request did
generate_text(self, model, prompt, max_length, reply) ==
    IF reply.kind = "Timeout" THEN TimedOutText
    ELSE IF reply.kind = "Exception" THEN <<"C","o","n","n","e","c","t","i","o","n"," ","e","r","r","o","r",":"," ">> \o reply.message
    ELSE IF reply.status_code = 200 THEN
        IF reply.is_list /\ Len(reply.items) > 0 /\ "generated_text" \in DOMAIN reply.items[1] THEN
            LET text == reply.items[1]["generated_text"]
                cleaned == IF Contains(text, prompt) THEN strip(replace(text, prompt, <<>>)) ELSE text
            IN  IF cleaned # <<>> THEN cleaned ELSE PlaceholderText
        ELSE IF reply.is_list /\ Len(reply.items) > 0 /\ "text" \in DOMAIN reply.items[1] THEN
            strip(reply.items[1]["text"])
        ELSE PlaceholderText
    ELSE IF reply.status_code = 503 THEN ModelLoadingText
    ELSE <<"A","P","I"," ","E","r","r","o","r",":"," ">> \o str(reply.status_code)

\* CaptionGenerator: self.emojis
caption_emojis ==
    instagram :> <<<<"U+1F4F8">>, <<"U+2728">>, <<"U+1F4AB">>, <<"U+1F31F">>, <<"U+1F49D">>, <<"U+1F525">>, <<"U+1F4AF">>, <<"U+1F64C">>, <<"U+1F44F">>, <<"U+1F4AA">>>> @@
    facebook :> <<<<"U+1F44D">>, <<"U+2764","U+FE0F">>, <<"U+1F60A">>, <<"U+1F389">>, <<"U+1F31F">>, <<"U+1F499">>, <<"U+1F91D">>, <<"U+1F46A">>, <<"U+1F3E1">>, <<"U+1F3AF">>>> @@
    twitter :> <<<<"U+1F680">>, <<"U+1F4A1">>, <<"U+1F525">>, <<"U+26A1">>, <<"U+1F3AF">>, <<"U+1F4AF">>, <<"U+1F9F5">>, <<"U+1F4C8">>, <<"U+1F30A">>, <<"U+2705">>>> @@
    linkedin :> <<<<"U+1F4BC">>, <<"U+1F680">>, <<"U+1F4C8">>, <<"U+1F4A1">>, <<"U+1F3AF">>, <<"U+1F91D">>, <<"U+1F3C6">>, <<"U+1F4AA">>, <<"U+1F31F">>, <<"U+1F4CA">>>> @@
    tiktok :> <<<<"U+1F3B5">>, <<"U+1F483">>, <<"U+1F57A">>, <<"U+1F525">>, <<"U+2728">>, <<"U+1F389">>, <<"U+1F4AF">>, <<"U+1F933">>, <<"U+1F31F">>, <<"U+26A1">>>>

\* CaptionGenerator.get_platform_specs(platform)
get_platform_specs(platform) ==
    LET specs ==
            instagram :> [max_chars |-> 2200, hashtags |-> TRUE, emojis |-> TRUE] @@
            facebook :> [max_chars |-> 63206, hashtags |-> FALSE, emojis |-> TRUE] @@
            twitter :> [max_chars |-> 280, hashtags |-> TRUE, emojis |-> TRUE] @@
            linkedin :> [max_chars |-> 3000, hashtags |-> TRUE, emojis |-> FALSE] @@
            tiktok :> [max_chars |-> 150, hashtags |-> TRUE, emojis |-> TRUE]
    IN  get(specs, lower(platform), specs[instagram])

\* CaptionGenerator.add_emojis(text, platform), given the emojis
\* random.sample drew and whether random.choice put them in front
add_emojis(self, text, platform, selected_emojis, in_front) ==
    IF in_front THEN join(<<" ">>, selected_emojis) \o <<" ">> \o text
    ELSE text \o <<" ">> \o join(<<" ">>, selected_emojis)

\* the samples random.sample(platform_emojis, min(3, len(platform_emojis)))
\* can draw: the lists of that many different places of the list
emoji_samples(self, platform) ==
    LET platform_emojis == get(self.emojis, lower(platform), self.emojis[instagram])
        n == Min(3, Len(platform_emojis))
    IN  {SubSeq([a \in 1..n |-> platform_emojis[f[a]]], 1, n) :
            f \in {g \in [1..n -> 1..Len(platform_emojis)] :
                        \A a \in 1..n, b \in 1..n : a # b => g[a] # g[b]}}

\* the fallback templates of generate_captions
caption_templates(topic) ==
    <<"c","a","s","u","a","l">> :> <<
        <<"J","u","s","t"," ","d","i","s","c","o","v","e","r","e","d"," ">>
            \o topic
            \o <<"!"," ","U+1F60D"," ","W","h","a","t","'","s"," ","y","o","u","r"," ","f","a","v","o","r","i","t","e"," ","t","h","i","n","g"," ","a","b","o","u","t"," ","t","h","i","s","?">>,
        <<"L","o","v","i","n","g"," ","t","h","i","s"," ">>
            \o topic
            \o <<" ","v","i","b","e"," ","t","o","d","a","y"," ","U+2728"," ","W","h","o"," ","e","l","s","e"," ","i","s"," ","o","b","s","e","s","s","e","d","?">>,
        topic
            \o <<" ","h","i","t","s"," ","d","i","f","f","e","r","e","n","t"," ","w","h","e","n"," ","y","o","u"," ","r","e","a","l","l","y"," ","a","p","p","r","e","c","i","a","t","e"," ","i","t"," ","U+1F4AB">>>> @@
    <<"p","r","o","f","e","s","s","i","o","n","a","l">> :> <<
        <<"E","x","p","l","o","r","i","n","g"," ","t","h","e"," ","i","m","p","a","c","t"," ","o","f"," ">>
            \o topic
            \o <<" ","i","n"," ","t","o","d","a","y","'","s"," ","l","a","n","d","s","c","a","p","e","."," ","T","h","o","u","g","h","t","s","?">>,
        <<"K","e","y"," ","i","n","s","i","g","h","t","s"," ","a","b","o","u","t"," ">>
            \o topic
            \o <<" ","t","h","a","t"," ","a","r","e"," ","w","o","r","t","h"," ","c","o","n","s","i","d","e","r","i","n","g"," ","t","o","d","a","y",".">>,
        <<"T","h","e"," ","i","m","p","o","r","t","a","n","c","e"," ","o","f"," ">>
            \o topic
            \o <<" ","c","a","n","n","o","t"," ","b","e"," ","o","v","e","r","s","t","a","t","e","d","."," ","H","e","r","e","'","s"," ","w","h","y",":">>>> @@
    <<"f","u","n","n","y">> :> <<
        <<"M","e"," ","t","r","y","i","n","g"," ","t","o"," ","e","x","p","l","a","i","n"," ">>
            \o topic
            \o <<" ","t","o"," ","m","y"," ","f","r","i","e","n","d","s"," ","U+1F602">>,
        <<"W","h","e","n"," ">>
            \o topic
            \o <<" ","i","s"," ","l","i","f","e"," ","b","u","t"," ","n","o","b","o","d","y"," ","u","n","d","e","r","s","t","a","n","d","s"," ","U+1F937","U+200D","U+2640","U+FE0F">>,
        <<"P","O","V",":"," ","Y","o","u","'","r","e"," ","o","b","s","e","s","s","e","d"," ","w","i","t","h"," ">>
            \o topic
            \o <<" ","a","n","d"," ","i","t"," ","s","h","o","w","s"," ","U+1F605">>>> @@
    <<"i","n","s","p","i","r","a","t","i","o","n","a","l">> :> <<
        <<"L","e","t"," ">>
            \o topic
            \o <<" ","r","e","m","i","n","d"," ","y","o","u"," ","t","h","a","t"," ","g","r","e","a","t"," ","t","h","i","n","g","s"," ","c","o","m","e"," ","t","o"," ","t","h","o","s","e"," ","w","h","o"," ","b","e","l","i","e","v","e"," ","U+2728">>,
        <<"E","v","e","r","y"," ","m","o","m","e","n","t"," ","w","i","t","h"," ">>
            \o topic
            \o <<" ","i","s"," ","a"," ","c","h","a","n","c","e"," ","t","o"," ","g","r","o","w"," ","a","n","d"," ","l","e","a","r","n"," ","U+1F31F">>,
        <<"F","i","n","d","i","n","g"," ","b","e","a","u","t","y"," ","i","n"," ">>
            \o topic
            \o <<" ","-"," ","s","o","m","e","t","i","m","e","s"," ","t","h","e"," ","s","i","m","p","l","e"," ","t","h","i","n","g","s"," ","m","a","t","t","e","r"," ","m","o","s","t"," ","U+1F4AB">>>> @@
    <<"e","d","u","c","a","t","i","o","n","a","l">> :> <<
        <<"D","i","d"," ","y","o","u"," ","k","n","o","w","?"," ">>
            \o topic
            \o <<" ","h","a","s"," ","s","o","m","e"," ","f","a","s","c","i","n","a","t","i","n","g"," ","a","s","p","e","c","t","s"," ","w","o","r","t","h"," ","e","x","p","l","o","r","i","n","g",".">>,
        <<"B","r","e","a","k","i","n","g"," ","d","o","w","n"," ">>
            \o topic
            \o <<":"," ","H","e","r","e","'","s"," ","w","h","a","t"," ","y","o","u"," ","n","e","e","d"," ","t","o"," ","k","n","o","w"," ","t","o","d","a","y",".">>,
        <<"Q","u","i","c","k"," ","f","a","c","t","s"," ","a","b","o","u","t"," ">>
            \o topic
            \o <<" ","t","h","a","t"," ","m","i","g","h","t"," ","s","u","r","p","r","i","s","e"," ","y","o","u",":">>>> @@
    <<"e","x","c","i","t","e","d">> :> <<
        <<"O","M","G"," ","Y","E","S","!"," ">>
            \o topic
            \o <<" ","i","s"," ","a","b","s","o","l","u","t","e","l","y"," ","E","V","E","R","Y","T","H","I","N","G"," ","r","i","g","h","t"," ","n","o","w","!"," ","U+1F525">>,
        <<"C","a","n","'","t"," ","c","o","n","t","a","i","n"," ","m","y"," ","e","x","c","i","t","e","m","e","n","t"," ","a","b","o","u","t"," ">>
            \o topic
            \o <<"!"," ","W","h","o","'","s"," ","w","i","t","h"," ","m","e","?"," ","U+1F64C">>,
        <<"T","H","I","S"," ","i","s"," ","w","h","y"," ","I"," ","l","o","v","e"," ">>
            \o topic
            \o <<" ","s","o"," ","m","u","c","h","!"," ","P","u","r","e"," ","m","a","g","i","c"," ","U+2728">>>>

\* the prompts generate_captions takes turns with
caption_variations(topic, tone, platform) ==
    <<<<"W","r","i","t","e"," ","a"," ">>
          \o tone
          \o <<" ","s","o","c","i","a","l"," ","m","e","d","i","a"," ","c","a","p","t","i","o","n"," ","a","b","o","u","t"," ">>
          \o topic,
      <<"C","r","e","a","t","e"," ","a","n"," ","e","n","g","a","g","i","n","g"," ">>
          \o platform
          \o <<" ","p","o","s","t"," ","a","b","o","u","t"," ">>
          \o topic
          \o <<" ","i","n"," ">>
          \o tone
          \o <<" ","s","t","y","l","e">>,
      <<"G","e","n","e","r","a","t","e"," ","a"," ">>
          \o tone
          \o <<" ","c","a","p","t","i","o","n"," ","f","o","r"," ">>
          \o topic>>

\* the caption of the except clause of generate_captions
ultimate_fallback(topic) ==
    <<"C","h","e","c","k"," ","o","u","t"," ","t","h","i","s"," ","a","m","a","z","i","n","g"," ">>
    \o topic
    \o <<"!"," ","W","h","a","t"," ","d","o"," ","y","o","u"," ","t","h","i","n","k","?"," ","U+2728">>

\* the words whose presence in a completion marks it as a failure
failure_marks == <<<<"e","r","r","o","r">>, <<"t","i","m","e","o","u","t">>, <<"l","o","a","d","i","n","g">>>>

\* caption and not any(error in caption.lower() for error in [...])
generation_succeeded(text) ==
    /\ text # <<>>
    /\ ~\E k \in 1..Len(failure_marks) : Contains(lower(text), failure_marks[k])

CaptionGenerator_init == [emojis |-> caption_emojis]

\* one round (i from 0) of the loop of generate_captions: the caption it
\* appends, given what the request did and what the random module drew
caption_of_round(self, i, topic, tone, platform, reply, selected_emojis, in_front) ==
    LET variations == caption_variations(topic, tone, platform)
        prompt == variations[(i % Len(variations)) + 1]
        caption_ == generate_text(self, "gpt2", prompt, 80, reply)
        cleaned == strip(replace(caption_, prompt, <<>>))
        templates == caption_templates(topic)
        template_captions == get(templates, lower(tone), templates[<<"c","a","s","u","a","l">>])
        fallback_caption == template_captions[(i % Len(template_captions)) + 1]
        chosen == IF generation_succeeded(caption_) /\ Len(cleaned) > 10 THEN cleaned
                  ELSE fallback_caption
    IN  \* caption.lower() raises AttributeError for a list: the except branch
        IF caption_ = ListOfText THEN ultimate_fallback(topic)
        ELSE IF get_platform_specs(platform).emojis
        THEN add_emojis(self, chosen, platform, selected_emojis, in_front)
        ELSE chosen

\* the captions one round appends when the 'continue' after the generated
\* caption is left out: the generated caption and the template fallback
captions_of_round_without_continue(self, i, topic, tone, platform, reply, selected_emojis, in_front) ==
    LET variations == caption_variations(topic, tone, platform)
        prompt == variations[(i % Len(variations)) + 1]
        caption_ == generate_text(self, "gpt2", prompt, 80, reply)
        cleaned == strip(replace(caption_, prompt, <<>>))
        accepted == caption_ # ListOfText /\ generation_succeeded(caption_) /\ Len(cleaned) > 10
    IN  <<caption_of_round(self, i, topic, tone, platform, reply, selected_emojis, in_front)>>
        \o (IF accepted
            THEN <<caption_of_round(self, i, topic, tone, platform, Response(503, FALSE, <<>>),
                                    selected_emojis, in_front)>>
            ELSE <<>>)

\* the captions one round of the loop appends to the list captions
captions_of_round(self, i, topic, tone, platform, reply, selected_emojis, in_front) ==
    <<caption_of_round(self, i, topic, tone, platform, reply, selected_emojis, in_front)>>

\* CaptionGenerator.generate_captions(topic, tone, platform, count), given for
\* every round what the request did (replies) and what was drawn (draws)
generate_captions(self, topic, tone, platform, count, replies, draws) ==
    Concat(SubSeq([k \in 1..Max(count, 0) |->
                captions_of_round(self, k - 1, topic, tone, platform, replies[k],
                                  draws[k].selected_emojis, draws[k].in_front)],
           1, Max(count, 0)))


\* ScriptGenerator: self.script_templates
script_templates ==
    <<"v","i","d","e","o">> :> [
        structure |-> <<<<"H","o","o","k">>, <<"I","n","t","r","o","d","u","c","t","i","o","n">>, <<"M","a","i","n"," ","C","o","n","t","e","n","t">>, <<"C","a","l","l"," ","t","o"," ","A","c","t","i","o","n">>>>,
        hooks |-> <<
            <<"W","a","i","t"," ","u","n","t","i","l"," ","y","o","u"," ","s","e","e"," ","w","h","a","t"," ","h","a","p","p","e","n","s"," ","n","e","x","t",".",".",".">>,
            <<"T","h","i","s"," ","o","n","e"," ","t","r","i","c","k"," ","c","h","a","n","g","e","d"," ","e","v","e","r","y","t","h","i","n","g"," ","f","o","r"," ","m","e">>,
            <<"Y","o","u"," ","w","o","n","'","t"," ","b","e","l","i","e","v","e"," ","w","h","a","t"," ","I"," ","d","i","s","c","o","v","e","r","e","d"," ","a","b","o","u","t"," ","{","t","o","p","i","c","}">>,
            <<"E","v","e","r","y","o","n","e"," ","g","e","t","s"," ","t","h","i","s"," ","w","r","o","n","g"," ","a","b","o","u","t"," ","{","t","o","p","i","c","}">>,
            <<"T","h","e"," ","t","r","u","t","h"," ","a","b","o","u","t"," ","{","t","o","p","i","c","}"," ","t","h","a","t"," ","n","o","b","o","d","y"," ","t","e","l","l","s"," ","y","o","u">>>>] @@
    <<"c","a","r","o","u","s","e","l">> :> [
        structure |-> <<<<"T","i","t","l","e"," ","S","l","i","d","e">>, <<"P","r","o","b","l","e","m">>, <<"S","o","l","u","t","i","o","n"," ","S","t","e","p","s">>, <<"R","e","s","u","l","t","s">>, <<"C","T","A">>>>,
        hooks |-> <<
            <<"U+1F6A8"," ","S","t","o","p"," ","s","c","r","o","l","l","i","n","g","!"," ","T","h","i","s"," ","{","t","o","p","i","c","}"," ","g","u","i","d","e"," ","w","i","l","l"," ","c","h","a","n","g","e"," ","y","o","u","r"," ","l","i","f","e">>,
            <<"U+2728"," ","T","h","e"," ","u","l","t","i","m","a","t","e"," ","{","t","o","p","i","c","}"," ","b","r","e","a","k","d","o","w","n"," ","i","n"," ","5"," ","s","l","i","d","e","s">>,
            <<"U+1F4A1"," ","E","v","e","r","y","t","h","i","n","g"," ","y","o","u"," ","n","e","e","d"," ","t","o"," ","k","n","o","w"," ","a","b","o","u","t"," ","{","t","o","p","i","c","}">>,
            <<"U+1F525"," ","{","t","o","p","i","c","}"," ","s","e","c","r","e","t","s"," ","t","h","a","t"," ","a","c","t","u","a","l","l","y"," ","w","o","r","k">>>>] @@
    <<"r","e","e","l">> :> [
        structure |-> <<<<"H","o","o","k"," ","(","3","s",")">>, <<"Q","u","i","c","k"," ","T","i","p","s">>, <<"V","i","s","u","a","l"," ","D","e","m","o">>, <<"S","t","r","o","n","g"," ","C","T","A">>>>,
        hooks |-> <<
            <<"P","O","V",":"," ","Y","o","u"," ","f","i","n","a","l","l","y"," ","u","n","d","e","r","s","t","a","n","d"," ","{","t","o","p","i","c","}">>,
            <<"T","h","a","t"," ","g","i","r","l"," ","w","h","o"," ","m","a","s","t","e","r","e","d"," ","{","t","o","p","i","c","}",":">>,
            <<"P","l","o","t"," ","t","w","i","s","t",":"," ","{","t","o","p","i","c","}"," ","i","s"," ","a","c","t","u","a","l","l","y"," ","e","a","s","y">>,
            <<"W","h","e","n"," ","y","o","u"," ","r","e","a","l","i","z","e"," ","{","t","o","p","i","c","}"," ","c","a","n"," ","c","h","a","n","g","e"," ","e","v","e","r","y","t","h","i","n","g",":">>>>] @@
    <<"s","t","o","r","y">> :> [
        structure |-> <<<<"H","o","o","k">>, <<"B","u","i","l","d"," ","U","p">>, <<"C","l","i","m","a","x","/","L","e","s","s","o","n">>, <<"R","e","f","l","e","c","t","i","o","n">>, <<"C","T","A">>>>,
        hooks |-> <<
            <<"T","h","i","s"," ","s","t","o","r","y"," ","a","b","o","u","t"," ","{","t","o","p","i","c","}"," ","w","i","l","l"," ","s","h","o","c","k"," ","y","o","u">>,
            <<"I"," ","n","e","v","e","r"," ","e","x","p","e","c","t","e","d"," ","{","t","o","p","i","c","}"," ","t","o"," ","t","e","a","c","h"," ","m","e"," ","t","h","i","s">>,
            <<"T","h","e"," ","d","a","y"," ","{","t","o","p","i","c","}"," ","c","h","a","n","g","e","d"," ","m","y"," ","p","e","r","s","p","e","c","t","i","v","e"," ","f","o","r","e","v","e","r">>>>] @@
    <<"t","u","t","o","r","i","a","l">> :> [
        structure |-> <<<<"I","n","t","r","o","d","u","c","t","i","o","n">>, <<"M","a","t","e","r","i","a","l","s","/","S","e","t","u","p">>, <<"S","t","e","p","-","b","y","-","S","t","e","p">>, <<"F","i","n","a","l"," ","R","e","s","u","l","t">>, <<"T","i","p","s"," ","&"," ","C","T","A">>>>,
        hooks |-> <<
            <<"M","a","s","t","e","r"," ","{","t","o","p","i","c","}"," ","i","n"," ","u","n","d","e","r"," ","5"," ","m","i","n","u","t","e","s">>,
            <<"T","h","e"," ","e","a","s","i","e","s","t"," ","w","a","y"," ","t","o"," ","l","e","a","r","n"," ","{","t","o","p","i","c","}">>,
            <<"F","o","l","l","o","w"," ","a","l","o","n","g"," ","t","o"," ","b","e","c","o","m","e"," ","a"," ","{","t","o","p","i","c","}"," ","p","r","o">>>>] @@
    <<"t","h","r","e","a","d">> :> [
        structure |-> <<<<"H","o","o","k"," ","T","w","e","e","t">>, <<"C","o","n","t","e","x","t"," ","S","e","t","u","p">>, <<"M","a","i","n"," ","P","o","i","n","t","s"," ","(","3","-","5",")">>, <<"C","o","n","c","l","u","s","i","o","n">>, <<"C","T","A"," ","T","w","e","e","t">>>>,
        hooks |-> <<
            <<"U+1F9F5"," ","E","v","e","r","y","t","h","i","n","g"," ","I"," ","l","e","a","r","n","e","d"," ","a","b","o","u","t"," ","{","t","o","p","i","c","}"," ","i","n"," ","o","n","e"," ","t","h","r","e","a","d",":">>,
            <<"A"," ","t","h","r","e","a","d"," ","o","n"," ","{","t","o","p","i","c","}"," ","t","h","a","t"," ","w","i","l","l"," ","s","a","v","e"," ","y","o","u"," ","y","e","a","r","s"," ","o","f"," ","m","i","s","t","a","k","e","s",":">>,
            <<"T","h","e"," ","{","t","o","p","i","c","}"," ","f","r","a","m","e","w","o","r","k"," ","t","h","a","t"," ","c","h","a","n","g","e","d"," ","m","y"," ","l","i","f","e",":">>>>]

\* ScriptGenerator: self.cta_templates
cta_templates ==
    <<"c","r","e","a","t","o","r","s">> :> <<
        <<"U+1F4A1"," ","S","a","v","e"," ","t","h","i","s"," ","f","o","r"," ","y","o","u","r"," ","n","e","x","t"," ","{","t","o","p","i","c","}"," ","c","o","n","t","e","n","t","!">>,
        <<"U+1F504"," ","S","h","a","r","e"," ","i","f"," ","t","h","i","s"," ","h","e","l","p","e","d"," ","y","o","u"," ","w","i","t","h"," ","{","t","o","p","i","c","}">>,
        <<"U+1F4E9"," ","D","M"," ","m","e"," ","f","o","r"," ","m","o","r","e"," ","{","t","o","p","i","c","}"," ","t","i","p","s">>,
        <<"U+1F447"," ","D","r","o","p"," ","y","o","u","r"," ","{","t","o","p","i","c","}"," ","q","u","e","s","t","i","o","n","s"," ","b","e","l","o","w">>>> @@
    <<"b","u","s","i","n","e","s","s">> :> <<
        <<"U+1F4C8"," ","R","e","a","d","y"," ","t","o"," ","i","m","p","l","e","m","e","n","t"," ","{","t","o","p","i","c","}"," ","i","n"," ","y","o","u","r"," ","b","u","s","i","n","e","s","s","?">>,
        <<"U+1F4BC"," ","B","o","o","k"," ","a"," ","c","o","n","s","u","l","t","a","t","i","o","n"," ","t","o"," ","d","i","s","c","u","s","s"," ","{","t","o","p","i","c","}"," ","s","t","r","a","t","e","g","y">>,
        <<"U+1F517"," ","L","i","n","k"," ","i","n"," ","b","i","o"," ","f","o","r"," ","o","u","r"," ","{","t","o","p","i","c","}"," ","c","o","u","r","s","e">>,
        <<"U+1F4CA"," ","D","o","w","n","l","o","a","d"," ","o","u","r"," ","f","r","e","e"," ","{","t","o","p","i","c","}"," ","t","e","m","p","l","a","t","e">>>> @@
    <<"s","t","u","d","e","n","t","s">> :> <<
        <<"U+1F4DA"," ","S","t","u","d","y"," ","t","h","i","s"," ","f","o","r"," ","y","o","u","r"," ","{","t","o","p","i","c","}"," ","e","x","a","m">>,
        <<"U+2705"," ","P","r","a","c","t","i","c","e"," ","t","h","e","s","e"," ","{","t","o","p","i","c","}"," ","t","e","c","h","n","i","q","u","e","s"," ","d","a","i","l","y">>,
        <<"U+1F465"," ","S","h","a","r","e"," ","w","i","t","h"," ","s","t","u","d","y"," ","p","a","r","t","n","e","r","s">>,
        <<"U+1F4DD"," ","C","o","m","m","e","n","t"," ","y","o","u","r"," ","{","t","o","p","i","c","}"," ","p","r","o","g","r","e","s","s">>>> @@
    <<"g","e","n","e","r","a","l">> :> <<
        <<"U+2764","U+FE0F"," ","L","i","k","e"," ","i","f"," ","t","h","i","s"," ","{","t","o","p","i","c","}"," ","t","i","p"," ","h","e","l","p","e","d"," ","y","o","u">>,
        <<"U+1F504"," ","S","h","a","r","e"," ","t","o"," ","h","e","l","p"," ","o","t","h","e","r","s"," ","w","i","t","h"," ","{","t","o","p","i","c","}">>,
        <<"U+1F4AC"," ","W","h","a","t","'","s"," ","y","o","u","r"," ","e","x","p","e","r","i","e","n","c","e"," ","w","i","t","h"," ","{","t","o","p","i","c","}","?">>,
        <<"U+1F514"," ","F","o","l","l","o","w"," ","f","o","r"," ","m","o","r","e"," ","{","t","o","p","i","c","}"," ","c","o","n","t","e","n","t">>>>

ScriptGenerator_init == [script_templates |-> script_templates, cta_templates |-> cta_templates]

\* ScriptGenerator.get_content_specs(content_type); the entries are kept as
\* dictionaries because they do not all have the same keys
get_content_specs(content_type) ==
    LET specs ==
            <<"v","i","d","e","o">> :> ("duration" :> <<"6","0","-","9","0"," ","s","e","c","o","n","d","s">> @@ "word_count" :> <<"1","5","0","-","2","0","0"," ","w","o","r","d","s">> @@ "focus" :> <<"V","i","s","u","a","l"," ","s","t","o","r","y","t","e","l","l","i","n","g">>) @@
            <<"c","a","r","o","u","s","e","l">> :> ("slides" :> <<"5","-","1","0"," ","s","l","i","d","e","s">> @@ "word_count" :> <<"2","0","-","3","0"," ","w","o","r","d","s"," ","p","e","r"," ","s","l","i","d","e">> @@ "focus" :> <<"S","t","e","p","-","b","y","-","s","t","e","p"," ","b","r","e","a","k","d","o","w","n">>) @@
            <<"r","e","e","l">> :> ("duration" :> <<"1","5","-","3","0"," ","s","e","c","o","n","d","s">> @@ "word_count" :> <<"5","0","-","8","0"," ","w","o","r","d","s">> @@ "focus" :> <<"Q","u","i","c","k",","," ","p","u","n","c","h","y"," ","c","o","n","t","e","n","t">>) @@
            <<"s","t","o","r","y">> :> ("duration" :> <<"3","0","-","6","0"," ","s","e","c","o","n","d","s">> @@ "word_count" :> <<"1","0","0","-","1","5","0"," ","w","o","r","d","s">> @@ "focus" :> <<"N","a","r","r","a","t","i","v","e"," ","a","r","c">>) @@
            <<"t","u","t","o","r","i","a","l">> :> ("duration" :> <<"9","0","-","1","8","0"," ","s","e","c","o","n","d","s">> @@ "word_count" :> <<"2","0","0","-","3","0","0"," ","w","o","r","d","s">> @@ "focus" :> <<"E","d","u","c","a","t","i","o","n","a","l"," ","v","a","l","u","e">>) @@
            <<"t","h","r","e","a","d">> :> ("tweets" :> <<"5","-","1","0"," ","t","w","e","e","t","s">> @@ "word_count" :> <<"2","8","0"," ","c","h","a","r","s"," ","p","e","r"," ","t","w","e","e","t">> @@ "focus" :> <<"V","a","l","u","a","b","l","e"," ","i","n","s","i","g","h","t","s">>)
    IN  get(specs, content_type, specs[<<"v","i","d","e","o">>])


\* template.format(topic=topic) for a template whose only field is {topic}
format_topic(template, topic) == replace(template, <<"{","t","o","p","i","c","}">>, topic)

\* ScriptGenerator.create_script_prompt(topic, audience, content_type): the
\* prompt, or the KeyError of specs['duration']
create_script_prompt(self, topic, audience, content_type) ==
    LET template == get(self.script_templates, content_type, self.script_templates[<<"v","i","d","e","o">>])
        specs == get_content_specs(content_type)
    IN  IF "duration" \notin DOMAIN specs THEN KeyError("duration")
        ELSE <<"C","r","e","a","t","e"," ","a"," ">>
             \o content_type
             \o <<" ","s","c","r","i","p","t"," ","a","b","o","u","t"," ">>
             \o topic
             \o <<" ","f","o","r"," ">>
             \o audience
             \o <<" ","a","u","d","i","e","n","c","e",".","\n","\n","S","c","r","i","p","t"," ","R","e","q","u","i","r","e","m","e","n","t","s",":","\n","-"," ","S","t","r","u","c","t","u","r","e",":"," ">>
             \o join(<<" ","U+2192"," ">>, template.structure)
             \o <<"\n","-"," ","D","u","r","a","t","i","o","n","/","L","e","n","g","t","h",":"," ">>
             \o specs["duration"]
             \o <<" ","(">>
             \o specs["word_count"]
             \o <<")","\n","-"," ","F","o","c","u","s",":"," ">>
             \o specs["focus"]
             \o <<"\n","-"," ","I","n","c","l","u","d","e"," ","e","n","g","a","g","i","n","g"," ","h","o","o","k",","," ","v","a","l","u","a","b","l","e"," ","c","o","n","t","e","n","t",","," ","a","n","d"," ","s","t","r","o","n","g"," ","c","a","l","l","-","t","o","-","a","c","t","i","o","n","\n","-"," ","M","a","k","e"," ","i","t"," ","c","o","n","v","e","r","s","a","t","i","o","n","a","l"," ","a","n","d"," ","e","n","g","a","g","i","n","g","\n","-"," ","T","a","r","g","e","t"," ","a","u","d","i","e","n","c","e",":"," ">>
             \o audience
             \o <<"\n","\n","T","o","p","i","c",":"," ">>
             \o topic
             \o <<"\n","C","o","n","t","e","n","t"," ","T","y","p","e",":"," ">>
             \o content_type
             \o <<"\n","\n","S","c","r","i","p","t",":">>

\* the video script of generate_template_script
video_script(topic, hook, cta, thread_hook) ==
    <<"U+1F3AC"," ","V","I","D","E","O"," ","S","C","R","I","P","T",":"," ">>
    \o title_case(topic)
    \o <<"\n","\n","U+1FA9D"," ","H","O","O","K"," ","(","0","-","3","s",")",":","\n">>
    \o hook
    \o <<"\n","\n","U+1F4CD"," ","I","N","T","R","O","D","U","C","T","I","O","N"," ","(","3","-","1","0","s",")",":","\n","H","e","y"," ","e","v","e","r","y","o","n","e","!"," ","T","o","d","a","y"," ","w","e","'","r","e"," ","d","i","v","i","n","g"," ","d","e","e","p"," ","i","n","t","o"," ">>
    \o topic
    \o <<"."," ","I","f"," ","y","o","u","'","v","e"," ","b","e","e","n"," ","s","t","r","u","g","g","l","i","n","g"," ","w","i","t","h"," ","t","h","i","s",","," ","y","o","u","'","r","e"," ","i","n"," ","t","h","e"," ","r","i","g","h","t"," ","p","l","a","c","e",".","\n","\n","U+1F3AF"," ","M","A","I","N"," ","C","O","N","T","E","N","T"," ","(","1","0","-","4","5","s",")",":","\n","H","e","r","e","'","s"," ","w","h","a","t"," ","y","o","u"," ","n","e","e","d"," ","t","o"," ","k","n","o","w"," ","a","b","o","u","t"," ">>
    \o topic
    \o <<":","\n","\n","1","."," ","T","h","e"," ","f","i","r","s","t"," ","k","e","y"," ","p","o","i","n","t"," ","a","b","o","u","t"," ">>
    \o topic
    \o <<" ","i","s"," ","u","n","d","e","r","s","t","a","n","d","i","n","g"," ","i","t","s"," ","f","o","u","n","d","a","t","i","o","n","\n","2","."," ","N","e","x","t",","," ","c","o","n","s","i","d","e","r"," ","h","o","w"," ">>
    \o topic
    \o <<" ","i","m","p","a","c","t","s"," ","y","o","u","r"," ","d","a","i","l","y"," ","r","o","u","t","i","n","e","\n","3","."," ","F","i","n","a","l","l","y",","," ","i","m","p","l","e","m","e","n","t"," ","t","h","e","s","e"," ">>
    \o topic
    \o <<" ","s","t","r","a","t","e","g","i","e","s"," ","c","o","n","s","i","s","t","e","n","t","l","y","\n","\n","U+1F4A1"," ","V","A","L","U","E"," ","D","E","L","I","V","E","R","Y"," ","(","4","5","-","5","5","s",")",":","\n","T","h","e"," ","b","i","g","g","e","s","t"," ","m","i","s","t","a","k","e"," ","p","e","o","p","l","e"," ","m","a","k","e"," ","w","i","t","h"," ">>
    \o topic
    \o <<" ","i","s"," ","r","u","s","h","i","n","g"," ","t","h","e"," ","p","r","o","c","e","s","s","."," ","T","a","k","e"," ","y","o","u","r"," ","t","i","m","e"," ","a","n","d"," ","f","o","c","u","s"," ","o","n"," ","q","u","a","l","i","t","y"," ","o","v","e","r"," ","q","u","a","n","t","i","t","y",".","\n","\n","U+1F4E2"," ","C","A","L","L"," ","T","O"," ","A","C","T","I","O","N"," ","(","5","5","-","6","0","s",")",":","\n">>
    \o cta
    \o <<"\n","\n","U+1F3AC"," ","E","N","D"," ","S","C","R","E","E","N",":"," ","S","u","b","s","c","r","i","b","e"," ","f","o","r"," ","m","o","r","e"," ">>
    \o topic
    \o <<" ","c","o","n","t","e","n","t","!">>

\* the carousel script of generate_template_script
carousel_script(topic, hook, cta, thread_hook) ==
    <<"U+1F4F1"," ","C","A","R","O","U","S","E","L"," ","S","C","R","I","P","T",":"," ">>
    \o title_case(topic)
    \o <<"\n","\n","S","L","I","D","E"," ","1"," ","-"," ","T","I","T","L","E",":","\n">>
    \o hook
    \o <<"\n","S","w","i","p","e"," ","f","o","r"," ","t","h","e"," ","c","o","m","p","l","e","t","e"," ","g","u","i","d","e"," ","U+2192","\n","\n","S","L","I","D","E"," ","2"," ","-"," ","P","R","O","B","L","E","M",":","\n","T","h","e"," ","C","h","a","l","l","e","n","g","e"," ","w","i","t","h"," ">>
    \o topic
    \o <<":","\n","M","o","s","t"," ","p","e","o","p","l","e"," ","s","t","r","u","g","g","l","e"," ","b","e","c","a","u","s","e"," ","t","h","e","y"," ","d","o","n","'","t"," ","h","a","v","e"," ","a"," ","c","l","e","a","r"," ","s","y","s","t","e","m","\n","\n","S","L","I","D","E"," ","3"," ","-"," ","S","O","L","U","T","I","O","N"," ","S","T","E","P"," ","1",":","\n","S","t","e","p"," ","1",":"," ","F","o","u","n","d","a","t","i","o","n","\n","S","t","a","r","t"," ","b","y"," ","u","n","d","e","r","s","t","a","n","d","i","n","g"," ","t","h","e"," ","b","a","s","i","c","s"," ","o","f"," ">>
    \o topic
    \o <<"\n","\n","S","L","I","D","E"," ","4"," ","-"," ","S","O","L","U","T","I","O","N"," ","S","T","E","P"," ","2",":","\n","S","t","e","p"," ","2",":"," ","I","m","p","l","e","m","e","n","t","a","t","i","o","n","\n","A","p","p","l","y"," ">>
    \o topic
    \o <<" ","p","r","i","n","c","i","p","l","e","s"," ","t","o"," ","y","o","u","r"," ","s","p","e","c","i","f","i","c"," ","s","i","t","u","a","t","i","o","n","\n","\n","S","L","I","D","E"," ","5"," ","-"," ","S","O","L","U","T","I","O","N"," ","S","T","E","P"," ","3",":","\n","S","t","e","p"," ","3",":"," ","O","p","t","i","m","i","z","a","t","i","o","n","\n","F","i","n","e","-","t","u","n","e"," ","y","o","u","r"," ">>
    \o topic
    \o <<" ","a","p","p","r","o","a","c","h"," ","b","a","s","e","d"," ","o","n"," ","r","e","s","u","l","t","s","\n","\n","S","L","I","D","E"," ","6"," ","-"," ","R","E","S","U","L","T","S",":","\n","W","h","a","t"," ","Y","o","u","'","l","l"," ","A","c","h","i","e","v","e",":","\n","U+2705"," ","B","e","t","t","e","r"," ","u","n","d","e","r","s","t","a","n","d","i","n","g"," ","o","f"," ">>
    \o topic
    \o <<"\n","U+2705"," ","P","r","a","c","t","i","c","a","l"," ","s","k","i","l","l","s"," ","y","o","u"," ","c","a","n"," ","u","s","e"," ","i","m","m","e","d","i","a","t","e","l","y","\n","U+2705"," ","C","o","n","f","i","d","e","n","c","e"," ","i","n"," ","y","o","u","r"," ">>
    \o topic
    \o <<" ","k","n","o","w","l","e","d","g","e","\n","\n","S","L","I","D","E"," ","7"," ","-"," ","C","T","A",":","\n">>
    \o cta

\* the reel script of generate_template_script
reel_script(topic, hook, cta, thread_hook) ==
    <<"U+1F3AC"," ","R","E","E","L"," ","S","C","R","I","P","T",":"," ">>
    \o title_case(topic)
    \o <<"\n","\n","U+1FA9D"," ","H","O","O","K"," ","(","0","-","2","s",")",":","\n">>
    \o hook
    \o <<"\n","\n","U+26A1"," ","Q","U","I","C","K"," ","T","I","P","S"," ","(","2","-","1","5","s",")",":","\n","U+2728"," ","T","i","p"," ","1",":"," ","M","a","s","t","e","r"," ","t","h","e"," ","b","a","s","i","c","s"," ","o","f"," ">>
    \o topic
    \o <<"\n","U+1F525"," ","T","i","p"," ","2",":"," ","P","r","a","c","t","i","c","e"," ">>
    \o topic
    \o <<" ","d","a","i","l","y","\n","U+1F4A1"," ","T","i","p"," ","3",":"," ","T","r","a","c","k"," ","y","o","u","r"," ">>
    \o topic
    \o <<" ","p","r","o","g","r","e","s","s","\n","\n","U+1F4F1"," ","V","I","S","U","A","L"," ","D","E","M","O"," ","(","1","5","-","2","5","s",")",":","\n","[","S","h","o","w"," ","p","r","a","c","t","i","c","a","l"," ","e","x","a","m","p","l","e"," ","o","f"," ">>
    \o topic
    \o <<" ","i","n"," ","a","c","t","i","o","n","]","\n","\n","U+1F4E2"," ","C","T","A"," ","(","2","5","-","3","0","s",")",":","\n">>
    \o cta

\* the thread script of generate_template_script
thread_script(topic, hook, cta, thread_hook) ==
    <<"U+1F426"," ","T","W","I","T","T","E","R"," ","T","H","R","E","A","D",":"," ">>
    \o title_case(topic)
    \o <<"\n","\n","T","W","E","E","T"," ","1"," ","-"," ","H","O","O","K",":","\n">>
    \o thread_hook
    \o <<"\n","\n","T","W","E","E","T"," ","2"," ","-"," ","C","O","N","T","E","X","T",":","\n","H","e","r","e","'","s"," ","w","h","y"," ">>
    \o topic
    \o <<" ","m","a","t","t","e","r","s"," ","m","o","r","e"," ","t","h","a","n"," ","y","o","u"," ","t","h","i","n","k",".",".",".","\n","\n","T","W","E","E","T"," ","3"," ","-"," ","P","O","I","N","T"," ","1",":","\n","1","/"," ","T","h","e"," ","f","o","u","n","d","a","t","i","o","n"," ","o","f"," ">>
    \o topic
    \o <<" ","s","t","a","r","t","s"," ","w","i","t","h"," ","u","n","d","e","r","s","t","a","n","d","i","n","g"," ","i","t","s"," ","c","o","r","e"," ","p","r","i","n","c","i","p","l","e","s","\n","\n","T","W","E","E","T"," ","4"," ","-"," ","P","O","I","N","T"," ","2",":","\n","2","/"," ","M","o","s","t"," ","p","e","o","p","l","e"," ","f","a","i","l"," ","a","t"," ">>
    \o topic
    \o <<" ","b","e","c","a","u","s","e"," ","t","h","e","y"," ","s","k","i","p"," ","t","h","e"," ","b","a","s","i","c","s","\n","\n","T","W","E","E","T"," ","5"," ","-"," ","P","O","I","N","T"," ","3",":","\n","3","/"," ","T","h","e"," ","s","e","c","r","e","t"," ","t","o"," ","m","a","s","t","e","r","i","n","g"," ">>
    \o topic
    \o <<" ","i","s"," ","c","o","n","s","i","s","t","e","n","t"," ","d","a","i","l","y"," ","p","r","a","c","t","i","c","e","\n","\n","T","W","E","E","T"," ","6"," ","-"," ","P","O","I","N","T"," ","4",":","\n","4","/"," ","A","d","v","a","n","c","e","d"," ">>
    \o topic
    \o <<" ","t","e","c","h","n","i","q","u","e","s"," ","o","n","l","y"," ","w","o","r","k"," ","w","h","e","n"," ","y","o","u"," ","h","a","v","e"," ","s","o","l","i","d"," ","f","u","n","d","a","m","e","n","t","a","l","s","\n","\n","T","W","E","E","T"," ","7"," ","-"," ","C","O","N","C","L","U","S","I","O","N",":","\n","R","e","m","e","m","b","e","r",":"," ">>
    \o topic
    \o <<" ","i","s"," ","a"," ","j","o","u","r","n","e","y",","," ","n","o","t"," ","a"," ","d","e","s","t","i","n","a","t","i","o","n","."," ","S","t","a","r","t"," ","s","m","a","l","l",","," ","s","t","a","y"," ","c","o","n","s","i","s","t","e","n","t",".","\n","\n","T","W","E","E","T"," ","8"," ","-"," ","C","T","A",":","\n">>
    \o cta
    \o <<"\n","\n","U+1F504"," ","R","e","t","w","e","e","t"," ","t","h","e"," ","f","i","r","s","t"," ","t","w","e","e","t"," ","i","f"," ","t","h","i","s"," ","t","h","r","e","a","d"," ","h","e","l","p","e","d"," ","y","o","u","!">>

\* the tutorial script of generate_template_script
tutorial_script(topic, hook, cta, thread_hook) ==
    <<"U+1F4DA"," ","T","U","T","O","R","I","A","L"," ","S","C","R","I","P","T",":"," ">>
    \o title_case(topic)
    \o <<"\n","\n","U+1F3AF"," ","I","N","T","R","O","D","U","C","T","I","O","N"," ","(","0","-","1","5","s",")",":","\n","W","e","l","c","o","m","e"," ","t","o"," ","t","h","i","s"," ">>
    \o topic
    \o <<" ","t","u","t","o","r","i","a","l","!"," ","B","y"," ","t","h","e"," ","e","n","d"," ","o","f"," ","t","h","i","s"," ","v","i","d","e","o",","," ","y","o","u","'","l","l"," ","h","a","v","e"," ","e","v","e","r","y","t","h","i","n","g"," ","y","o","u"," ","n","e","e","d"," ","t","o"," ","g","e","t"," ","s","t","a","r","t","e","d",".","\n","\n","U+1F6E0","U+FE0F"," ","W","H","A","T"," ","Y","O","U","'","L","L"," ","N","E","E","D"," ","(","1","5","-","3","0","s",")",":","\n","M","a","t","e","r","i","a","l","s"," ","f","o","r"," ">>
    \o topic
    \o <<":","\n","-"," ","B","a","s","i","c"," ","u","n","d","e","r","s","t","a","n","d","i","n","g"," ","o","f"," ","t","h","e"," ","c","o","n","c","e","p","t","\n","-"," ","W","i","l","l","i","n","g","n","e","s","s"," ","t","o"," ","p","r","a","c","t","i","c","e","\n","-"," ","N","o","t","e","b","o","o","k"," ","f","o","r"," ","t","r","a","c","k","i","n","g"," ","p","r","o","g","r","e","s","s","\n","\n","U+1F4CB"," ","S","T","E","P","-","B","Y","-","S","T","E","P"," ","(","3","0","-","1","2","0","s",")",":","\n","S","t","e","p"," ","1",":"," ","S","e","t"," ","u","p"," ","y","o","u","r"," ">>
    \o topic
    \o <<" ","f","o","u","n","d","a","t","i","o","n","\n","S","t","e","p"," ","2",":"," ","L","e","a","r","n"," ","t","h","e"," ","c","o","r","e"," ","t","e","c","h","n","i","q","u","e","s","\n","S","t","e","p"," ","3",":"," ","P","r","a","c","t","i","c","e"," ","w","i","t","h"," ","r","e","a","l"," ","e","x","a","m","p","l","e","s","\n","S","t","e","p"," ","4",":"," ","T","r","o","u","b","l","e","s","h","o","o","t"," ","c","o","m","m","o","n"," ","i","s","s","u","e","s","\n","\n","U+1F389"," ","F","I","N","A","L"," ","R","E","S","U","L","T"," ","(","1","2","0","-","1","5","0","s",")",":","\n","N","o","w"," ","y","o","u"," ","h","a","v","e"," ","a"," ","c","o","m","p","l","e","t","e"," ","u","n","d","e","r","s","t","a","n","d","i","n","g"," ","o","f"," ">>
    \o topic
    \o <<" ","a","n","d"," ","c","a","n"," ","a","p","p","l","y"," ","i","t"," ","i","m","m","e","d","i","a","t","e","l","y","!","\n","\n","U+1F4A1"," ","B","O","N","U","S"," ","T","I","P","S"," ","(","1","5","0","-","1","7","0","s",")",":","\n","P","r","o"," ","t","i","p","s"," ","f","o","r"," ">>
    \o topic
    \o <<" ","s","u","c","c","e","s","s",":","\n","-"," ","S","t","a","r","t"," ","s","i","m","p","l","e"," ","a","n","d"," ","b","u","i","l","d"," ","c","o","m","p","l","e","x","i","t","y","\n","-"," ","T","r","a","c","k"," ","y","o","u","r"," ","p","r","o","g","r","e","s","s"," ","d","a","i","l","y","\n","-"," ","J","o","i","n"," ","c","o","m","m","u","n","i","t","i","e","s"," ","f","o","r"," ","s","u","p","p","o","r","t","\n","\n","U+1F4E2"," ","C","T","A"," ","(","1","7","0","-","1","8","0","s",")",":","\n">>
    \o cta

\* ScriptGenerator.generate_template_script(topic, audience, content_type),
\* given the templates random.choice drew: the hook among the hooks of the
\* content type, the call to action among those of the audience, and the hook
\* the thread script draws for itself
generate_template_script(self, topic, audience, content_type, hook_template, cta_template, thread_hook_template) ==
    LET hook == format_topic(hook_template, topic)
        cta == format_topic(cta_template, topic)
        thread_hook == format_topic(thread_hook_template, topic)
    IN  IF content_type = <<"v","i","d","e","o">> THEN video_script(topic, hook, cta, thread_hook)
        ELSE IF content_type = <<"c","a","r","o","u","s","e","l">> THEN carousel_script(topic, hook, cta, thread_hook)
        ELSE IF content_type = <<"r","e","e","l">> THEN reel_script(topic, hook, cta, thread_hook)
        ELSE IF content_type = <<"t","h","r","e","a","d">> THEN thread_script(topic, hook, cta, thread_hook)
        ELSE tutorial_script(topic, hook, cta, thread_hook)

\* what random.choice can draw in generate_template_script
script_hooks(self, content_type) ==
    Range(get(self.script_templates, content_type, self.script_templates[<<"v","i","d","e","o">>]).hooks)
script_ctas(self, audience) ==
    Range(get(self.cta_templates, audience, self.cta_templates[<<"g","e","n","e","r","a","l">>]))
thread_hooks(self) == Range(self.script_templates[<<"t","h","r","e","a","d">>].hooks)

\* ScriptGenerator.generate_script_with_ai(topic, audience, content_type): the
\* script it returns, or the KeyError create_script_prompt raises before the
\* try block is entered
generate_script_with_ai(self, topic, audience, content_type, reply, hook_template, cta_template, thread_hook_template) ==
    LET prompt == create_script_prompt(self, topic, audience, content_type)
        script == generate_text(self, "gpt2", prompt, 200, reply)
        cleaned == strip(replace(script, prompt, <<>>))
    IN  IF IsKeyError(prompt) THEN prompt
        ELSE IF generation_succeeded(script) /\ Len(cleaned) > 50 THEN cleaned
        ELSE generate_template_script(self, topic, audience, content_type,
                                      hook_template, cta_template, thread_hook_template)


(***************************************************************************)
(* Inputs of the checked instances.                                        *)
(***************************************************************************)
\* the caption of the scenario of section 8 of the specification
ScenarioCaption ==
    <<"C","h","e","c","k"," ","o","u","t"," ","o","u","r"," ","A","M","A","Z","I","N","G"," ","n","e","w"," ","p","r","o","d","u","c","t","!","!","!"," ","C","o","m","m","e","n","t"," ","b","e","l","o","w"," ","a","n","d"," ","s","h","a","r","e"," ","w","i","t","h"," ","f","r","i","e","n","d","s","."," ","I","s","n","'","t"," ","i","t"," ","b","e","a","u","t","i","f","u","l","?">>

\* parts a caption is put together from
CaptionParts ==
    << <<"L","o","v","e"," ","i","t","?"," ">>,
       <<"B","I","G"," ","N","E","W","S","!","!","!"," ">>,
       <<"W","O","W"," ">>,
       <<"U+1F600","U+1F600","U+1F600"," ">>,
       <<"s","h","a","r","e"," ","#","a","1"," ","#","b","2","\n">>,
       <<"n","i","c","e"," ","h","t","t","p","s",":","/","/","t",".","c","o","/","x"," ","@","y","o","u"," ">>,
       <<"e","x","t","r","a","o","r","d","i","n","a","r","i","l","y"," ","u","n","b","e","l","i","e","v","a","b","l","y"," ","r","e","s","p","o","n","s","i","b","i","l","i","t","i","e","s"," ">>,
       <<"w","e"," ","g","o"," ","o","n"," ","a","n","d"," ","o","n"," ","a","n","d"," ","o","n"," ","a","n","d"," ","o","n"," ","a","n","d"," ","o","n"," ","a","n","d"," ","o","n"," ","a","n","d"," ","o","n"," ","a","n","d"," ","o","n"," ","a","n","d"," ","o","n"," ","a","n","d"," ","o","n"," ">> >>

SeqsUpTo(S, n) == UNION {[1..k -> S] : k \in 0..n}

\* a caption with five high-impact words, one of them three times, and two
\* medium-impact words
GushingCaption ==
    <<"A","m","a","z","i","n","g",","," ","a","w","e","s","o","m","e",","," ","p","e","r","f","e","c","t",","," ","s","t","u","n","n","i","n","g",":"," ","a"," ","g","r","e","a","t",","," ","g","o","o","d"," ","l","o","o","k","."," ","L","o","v","e",","," ","l","o","v","e",","," ","L","O","V","E"," ","i","t">>

\* a caption of one sentence of twenty words
MeasuredCaption ==
    <<"w","e"," ","p","l","a","n"," ","t","o"," ","w","a","l","k"," ","t","o"," ","t","h","e"," ","o","l","d"," ","m","i","l","l"," ","b","y"," ","t","h","e"," ","r","i","v","e","r"," ","a","n","d"," ","t","h","e","n"," ","b","a","c","k"," ","h","o","m","e"," ","b","e","f","o","r","e"," ","t","h","e"," ","s","u","n"," ","s","e","t","s"," ","a","g","a","i","n",".">>

\* a caption that every rule of the three scorers takes from, on linkedin
WorstCaption ==
    <<"#","a"," ","#","b"," ","#","c"," ","#","d"," ","#","e"," ","#","f"," ","#","g"," ","#","h"," ","#","i"," ","#","j"," ","#","k"," ","U+1F600","U+1F600","U+1F600","U+1F600","U+1F600","U+1F600"," ","e","x","t","r","a","o","r","d","i","n","a","r","i","l","y"," ","u","n","b","e","l","i","e","v","a","b","l","y"," ","r","e","s","p","o","n","s","i","b","i","l","i","t","i","e","s"," ","B","I","G"," ","N","E","W","S","!","!","!"," ","o"," ","o"," ","o"," ","o">>

\* a caption that every rule of the three scorers adds for, on twitter with
\* the image description 'nice share'
BestCaption ==
    <<"L","o","v","e"," ","t","h","i","s"," ","a","m","a","z","i","n","g",","," ","p","e","r","f","e","c","t"," ","v","i","e","w","?"," ","n","i","c","e"," ","s","h","a","r","e"," ","U+1F600"," ","#","a","1","\n","S","e","e"," ","y","o","u"," ","a","t"," ","t","h","e"," ","o","l","d"," ","m","i","l","l"," ","b","y"," ","t","h","e"," ","r","i","v","e","r">>

Captions == {Concat(ps) : ps \in SeqsUpTo({CaptionParts[k] : k \in 1..Len(CaptionParts)}, MaxParts)}
            \cup {ScenarioCaption, GushingCaption, MeasuredCaption, WorstCaption, BestCaption}

ImageDescriptions == {<<>>, <<"n","i","c","e"," ","s","h","a","r","e">>}

myspace == <<"m","y","s","p","a","c","e">>
Platforms == {instagram, facebook, twitter, linkedin, tiktok, myspace}

\* fragments a long-form text is put together from, each with its terminator
ContentParts ==
    << <<"T","h","e"," ","k","e","y"," ","r","e","s","u","l","t"," ","i","s"," ","i","m","p","o","r","t","a","n","t"," ","h","e","r","e","."," ">>,
       <<"T","h","i","s"," ","o","n","e"," ","h","a","s"," ","n","o","t","h","i","n","g"," ","s","p","e","c","i","a","l"," ","a","t"," ","a","l","l"," ","t","o"," ","s","a","y"," ","t","o"," ","y","o","u","!"," ">>,
       <<"T","o","o"," ","s","h","o","r","t","?"," ">>,
       <<"I","n"," ","2","0","2","4"," ","w","e"," ","s","o","l","d"," ","2","5"," ","u","n","i","t","s"," ","o","f"," ","i","t",".",".","."," ">> >>

Contents == {Concat(ps) : ps \in SeqsUpTo({ContentParts[k] : k \in 1..Len(ContentParts)}, MaxSentences)}

\* short sentences a text is put together from: a plain one, one with a
\* number, and one in which the indicator word 'tip' occurs twice
PlainParts ==
    << <<"N","o","t","h","i","n","g"," ","m","u","c","h"," ","h","a","p","p","e","n","s"," ","i","n"," ","t","h","i","s"," ","o","n","e","."," ">>,
       <<"W","e"," ","s","o","l","d"," ","2","5"," ","u","n","i","t","s"," ","o","f"," ","i","t"," ","a","l","r","e","a","d","y","!"," ">>,
       <<"O","n","e"," ","t","i","p"," ","a","f","t","e","r"," ","a","n","o","t","h","e","r"," ","t","i","p"," ","h","e","l","p","s","."," ">> >>

PlainContents == {Concat(ps) : ps \in SeqsUpTo({PlainParts[k] : k \in 1..Len(PlainParts)}, MaxPlainSentences)}

\* key points handed to the composer: the k-th of a list names its place
KeyPoint(k) == <<"t","i","p"," ">> \o str(k) \o <<" ","m","a","t","t","e","r","s">>
\* a key point of 201 characters
LongPoint == SubSeq([i \in 1..201 |-> "y"], 1, 201)
PlainKeyPoints(n) == SubSeq([k \in 1..n |-> KeyPoint(k)], 1, n)
KeyPointLists ==
    {PlainKeyPoints(n) : n \in 0..MaxKeyPoints}
    \cup {[PlainKeyPoints(n) EXCEPT ![2] = LongPoint] : n \in {2, MaxKeyPoints}}
Titles == {<<>>, <<"M","y"," ","S","t","o","r","y">>, <<"H","e","a","l","t","h"," ","N","e","w","s">>}

\* a key point of n characters without a blank, and one of n characters that
\* ends with the word 'health'
PointOfLength(n) == SubSeq([i \in 1..n |-> DigitOf[(i % 10) + 1]], 1, n)
PointWithTail(n) == PointOfLength(n - 7) \o <<" ","h","e","a","l","t","h">>
\* key points at and just over the limits of the three composers, and lists
\* of 0 to MaxSlidePoints short ones
LimitPoints ==
    {PointOfLength(80), PointWithTail(81), PointOfLength(100), PointWithTail(101),
     PointOfLength(200), PointWithTail(201)}
LimitKeyPointLists == {<<KeyPoint(1), p>> : p \in LimitPoints} \cup {<<PointWithTail(101)>>}
SlideKeyPointLists == {PlainKeyPoints(n) : n \in 0..MaxSlidePoints}
ComposerTitles == {<<>>, <<"M","y"," ","S","t","o","r","y">>}
SinglePostPlatforms == {facebook, twitter, linkedin}
Voices == {"professional", "casual"}


\* what the requests of the runs of the endpoints carry
ApiContents == {<<>>, ScenarioCaption, <<"c","a","f","%","C","3","%","A","9"," ","a","%","0","B","b">>, <<"N","i","c","e","%","2","0","d","a","y","%","2","1"," ","S","h","a","r","e","%","3","F"," ","1","0","0","%">>, <<"L","o","v","e","%","2">>, CaptionParts[5]}
ApiPlatforms == {instagram, twitter, <<"T","w","i","t","t","e","r">>, myspace, <<>>}
ApiImageDescriptions == {<<>>, <<"n","i","c","e"," ","s","h","a","r","e">>}
PostRequests ==
    {[content |-> c, platform |-> p, image_description |-> d] :
        c \in ApiContents, p \in ApiPlatforms, d \in ApiImageDescriptions}
    \cup {[content |-> c, image_description |-> d] : c \in ApiContents, d \in ApiImageDescriptions}
    \cup {[platform |-> p] : p \in ApiPlatforms}

\* what the request of the text-completion client does in the checked runs
GoodCompletion ==
    Response(200, TRUE, <<("generated_text" :>
        <<"A"," ","c","a","l","m"," ","m","o","r","n","i","n","g"," ","o","n"," ","t","h","e"," ","m","a","t"," ","s","e","t","s"," ","t","h","e"," ","t","o","n","e"," ","f","o","r"," ","t","h","e"," ","w","h","o","l","e"," ","d","a","y"," ","a","h","e","a","d">>)>>)
Replies ==
    {GoodCompletion, Response(200, TRUE, <<>>), Response(503, FALSE, <<>>),
     Response(404, FALSE, <<>>), Timeout, Raises(<<"r","e","f","u","s","e","d">>),
     Response(200, TRUE, <<("generated_text" :> ListOfText)>>)}

\* the draws of add_emojis: any sample random.sample can draw, put in front
\* of the text or behind it by random.choice([True, False])
EmojiDraws(self, platform) ==
    {[selected_emojis |-> sample, in_front |-> in_front] :
        sample \in emoji_samples(self, platform), in_front \in BOOLEAN}

\* a round that does not call add_emojis draws nothing
NoDraw == [selected_emojis |-> <<>>, in_front |-> FALSE]

\* the draws a round can make: on a platform without emojis add_emojis is not
\* called and nothing is drawn
DrawsMade(platform) ==
    IF get_platform_specs(platform).emojis
    THEN EmojiDraws(CaptionGenerator_init, platform)
    ELSE {NoDraw}

Topics == {<<"y","o","g","a">>}
Tones == {<<"c","a","s","u","a","l">>, <<"F","o","r","m","a","l">>}
CaptionPlatforms == {instagram, linkedin}

\* the numbers of captions asked for: on a platform with emojis every round
\* has the 1440 draws of add_emojis for each reply, so the runs ask for one
\* caption at most there
CaptionCounts(platform) == IF get_platform_specs(platform).emojis THEN {0, 1} ELSE 0..MaxCount
Audiences == {<<"c","r","e","a","t","o","r","s">>, <<"a","l","i","e","n","s">>}
ContentTypes == {<<"v","i","d","e","o">>, <<"c","a","r","o","u","s","e","l">>, <<"r","e","e","l">>, <<"s","t","o","r","y">>, <<"t","h","r","e","a","d">>, <<"p","o","d","c","a","s","t">>}

\* contents whose hashtags are generated: without a topic, with one and with two
HashtagContents ==
    {<<>>,
     <<"T","e","a"," ","a","t"," ","5","!">>,
     <<"H","e","a","l","t","h"," ","N","e","w","s">>,
     <<"m","y"," ","L","I","F","E",","," ","m","y"," ","r","u","l","e","s">>,
     <<"T","e","c","h"," ","f","o","r"," ","s","m","a","l","l"," ","b","u","s","i","n","e","s","s","e","s">>}
ComposerPlatforms == {instagram, facebook, twitter, linkedin, tiktok}

\* key points and titles of the single posts that are composed step by step:
\* no point, three short ones, a point that is shortened, and a point with
\* blank lines inside
BrokenPoint == <<"o","n","e","\n","\n","\n","t","w","o">>
SinglePostKeyPoints ==
    {<<>>, PlainKeyPoints(3), <<LongPoint, KeyPoint(2), KeyPoint(3)>>,
     <<KeyPoint(1), BrokenPoint, KeyPoint(3)>>}
SinglePostTitles == {<<>>, <<"M","y"," ","S","t","o","r","y">>}

Analyzers == {"api", "app"}

\* captions of the runs that call the analyzers several times
CallCaptions == {<<>>, CaptionParts[5], ScenarioCaption}
CallPlatforms == {twitter, myspace}

(***************************************************************************)
(* The state machine.  A run is handed its text when it starts; each       *)
(* action is one call of a public method, recorded with what it returned.  *)
(***************************************************************************)
\* the fields after a call that stores the guidelines it looked up as the
\* default profile: self.platform_guidelines['instagram'] = guidelines
after_analyze_content_stores(self, caption_, image_description, platform) ==
    [self EXCEPT !.platform_guidelines[instagram] =
        get(self.platform_guidelines, lower(platform), self.platform_guidelines[instagram])]

\* the fields after a call that raises the upper end of the optimal hashtag
\* range of the profile it scored against above the profile's ceiling
after_analyze_content_widens(self, caption_, image_description, platform) ==
    LET key == IF lower(platform) \in DOMAIN self.platform_guidelines THEN lower(platform) ELSE instagram
    IN  [self EXCEPT !.platform_guidelines[key].optimal_hashtags[2] =
            self.platform_guidelines[key].max_hashtags + 1]

\* the fields of the analyzer after analyze_content returns: the method and
\* the scorers it calls assign no field of self
after_analyze_content(self, caption_, image_description, platform) == self

NewAnalyzers == [a \in Analyzers |-> ContentHealthAnalyzer_init]

\* no call is being run step by step
NoFrame == [pc |-> "idle"]

Init ==
    /\ analyzers = NewAnalyzers
    /\ caption \in Captions
    /\ content = <<>>
    /\ calls = <<>>
    /\ frame = NoFrame

DoAnalyzeContent(a, image_description, platform) ==
    /\ calls' = Append(calls,
            [op |-> "analyze_content", analyzer |-> a, caption |-> caption,
             image_description |-> image_description, platform |-> platform,
             ret |-> analyze_content(analyzers[a], caption, image_description, platform)])
    /\ analyzers' = [analyzers EXCEPT
            ![a] = after_analyze_content(@, caption, image_description, platform)]
    /\ UNCHANGED <<caption, content, frame>>

\* analyzer.analyze_content(caption, image_description, platform), once per run
AnalyzeContent(image_description, platform) ==
    /\ calls = <<>>
    /\ DoAnalyzeContent("app", image_description, platform)

\* analyzer.extract_features(caption), once per run
ExtractFeatures ==
    /\ calls = <<>>
    /\ calls' = <<[op |-> "extract_features", text |-> caption, ret |-> extract_features(caption)]>>
    /\ UNCHANGED <<analyzers, caption, content, frame>>

Next ==
    \/ \E image_description \in ImageDescriptions, platform \in Platforms :
            AnalyzeContent(image_description, platform)
    \/ ExtractFeatures

Spec == Init /\ [][Next]_vars

\* Runs in which either analyzer is called up to MaxCalls times.
InitCalls ==
    /\ analyzers = NewAnalyzers
    /\ caption \in CallCaptions
    /\ content = <<>>
    /\ calls = <<>>
    /\ frame = NoFrame

AnalyzeContentAgain(a, image_description, platform) ==
    /\ Len(calls) < MaxCalls
    /\ DoAnalyzeContent(a, image_description, platform)

NextCalls ==
    \E a \in Analyzers, image_description \in ImageDescriptions, platform \in CallPlatforms :
        AnalyzeContentAgain(a, image_description, platform)

SpecCalls == InitCalls /\ [][NextCalls]_vars

\* Runs of the key-point ranker.
InitKeyPoints ==
    /\ analyzers = NewAnalyzers
    /\ caption = <<>>
    /\ content \in Contents
    /\ calls = <<>>
    /\ frame = NoFrame

\* what a call of extract_key_points leaves in the record of calls: ret is the
\* list it returns; picked lists, for each returned sentence, its place
\* (from 0) among the qualifying sentences of the text; scored is the local
\* list scored_sentences as the loop leaves it, before the sort
KeyPointsCall(text, max_points, top) ==
    [op |-> "extract_key_points", content |-> text, max_points |-> max_points,
     ret |-> sentences_of(top), picked |-> places_of(top),
     scored |-> scored_sentences(text)]

\* converter.extract_key_points(content, max_points), once per run
ExtractKeyPoints(max_points) ==
    /\ calls = <<>>
    /\ calls' = <<KeyPointsCall(content, max_points, ranked_key_points(content, max_points))>>
    /\ UNCHANGED <<analyzers, caption, content, frame>>

NextKeyPoints == \E max_points \in (-1)..MaxPoints : ExtractKeyPoints(max_points)

SpecKeyPoints == InitKeyPoints /\ [][NextKeyPoints]_vars

\* Runs of the key-point ranker on texts of up to MaxPlainSentences short
\* sentences.
InitScores ==
    /\ analyzers = NewAnalyzers
    /\ caption = <<>>
    /\ content \in PlainContents
    /\ calls = <<>>
    /\ frame = NoFrame

SpecScores == InitScores /\ [][NextKeyPoints]_vars

\* Runs of the composer of twitter threads.
InitPosts ==
    /\ analyzers = NewAnalyzers
    /\ caption = <<>>
    /\ content = <<>>
    /\ calls = <<>>
    /\ frame = NoFrame

\* what a call of create_platform_post leaves in the record of calls
PostCall(key_points, title, platform, voice, post_type, ret) ==
    [op |-> "create_platform_post", key_points |-> key_points, title |-> title,
     platform |-> platform, voice |-> voice, post_type |-> post_type, ret |-> ret]

\* converter.create_platform_post(key_points, title, 'twitter', voice, 'thread'),
\* once per run, with every outcome of random.choice and of the listing of
\* the hashtag set
CreateTwitterThread(key_points, title, voice) ==
    /\ calls = <<>>
    /\ \E intro \in Range(voice_templates[voice].intro_phrases),
          cta \in Range(voice_templates[voice].cta_phrases),
          hashtags \in _generate_hashtags(BlogToSocialConverter_init,
                                          hashtag_source(title, key_points), twitter) :
            calls' = <<PostCall(key_points, title, twitter, voice, "thread",
                        create_platform_post(BlogToSocialConverter_init, key_points, title, twitter,
                            voice, "thread", intro, intro, cta, hashtags))>>
    /\ UNCHANGED <<analyzers, caption, content, frame>>

NextThread ==
    \E key_points \in KeyPointLists, title \in Titles, voice \in Voices :
        CreateTwitterThread(key_points, title, voice)

SpecThread == InitPosts /\ [][NextThread]_vars

\* Runs of the three composers: one call of create_platform_post per run,
\* with every outcome of random.choice and of the listing of the hashtag set.
ComposePost(key_points, title, platform, voice, post_type) ==
    /\ calls = <<>>
    /\ \E intro \in Range(voice_templates[voice].intro_phrases),
          conclusion \in Range(voice_templates[voice].conclusion_phrases),
          cta \in Range(voice_templates[voice].cta_phrases),
          hashtags \in _generate_hashtags(BlogToSocialConverter_init,
                                          hashtag_source(title, key_points), platform) :
            calls' = <<PostCall(key_points, title, platform, voice, post_type,
                        create_platform_post(BlogToSocialConverter_init, key_points, title, platform,
                            voice, post_type, intro, conclusion, cta, hashtags))>>
    /\ UNCHANGED <<analyzers, caption, content, frame>>

\* converter.create_platform_post(key_points, title, 'twitter', voice, 'thread')
ComposeThread ==
    \E key_points \in LimitKeyPointLists \cup SlideKeyPointLists, title \in ComposerTitles :
        ComposePost(key_points, title, twitter, "professional", "thread")

\* converter.create_platform_post(key_points, title, 'instagram', voice, 'carousel')
ComposeCarousel ==
    \E key_points \in LimitKeyPointLists \cup SlideKeyPointLists, title \in ComposerTitles :
        ComposePost(key_points, title, instagram, "casual", "carousel")

\* converter.create_platform_post(key_points, title, platform, voice)
ComposeSinglePost ==
    \E key_points \in LimitKeyPointLists, platform \in SinglePostPlatforms :
        ComposePost(key_points, <<>>, platform, "professional", "single_post")

NextComposers == ComposeThread \/ ComposeCarousel \/ ComposeSinglePost

SpecComposers == InitPosts /\ [][NextComposers]_vars

\* Runs of the /analyze endpoints: one request per run, served by the
\* analyzer of the module.
InitApi ==
    /\ analyzers = NewAnalyzers
    /\ caption = <<>>
    /\ content = <<>>
    /\ calls = <<>>
    /\ frame = NoFrame

\* the record of a served request (platform is the one the handler reads)
\* and the analyzer after it
Served(method, request, platform, response) ==
    /\ calls' = <<[op |-> "/analyze", method |-> method, request |-> request,
                   platform |-> platform, response |-> response]>>
    /\ analyzers' = [analyzers EXCEPT !["api"] =
            IF response.analysed = <<>> THEN @
            ELSE after_analyze_content(@, response.analysed[1].caption,
                    response.analysed[1].image_description, response.analysed[1].platform)]
    /\ UNCHANGED <<caption, content, frame>>

AnalyzeContentGet(content_, platform, image_description) ==
    /\ calls = <<>>
    /\ Served("GET", [content |-> content_, platform |-> platform,
                      image_description |-> image_description], platform,
              analyze_content_get(analyzers["api"], content_, platform, image_description))

AnalyzeContentPost(request) ==
    /\ calls = <<>>
    /\ Served("POST", request, request_get(request, "platform", instagram),
              analyze_content_post(analyzers["api"], request))

NextApi ==
    \/ \E content_ \in ApiContents, platform \in ApiPlatforms,
          image_description \in ApiImageDescriptions \cup {Absent} :
            AnalyzeContentGet(content_, platform, image_description)
    \/ \E request \in PostRequests : AnalyzeContentPost(request)

SpecApi == InitApi /\ [][NextApi]_vars

\* Runs of the generators of app.py: one call per run.
InitGenerators ==
    /\ analyzers = NewAnalyzers
    /\ caption = <<>>
    /\ content = <<>>
    /\ calls = <<>>
    /\ frame = NoFrame

CaptionsCall(topic, tone, platform, count, replies, ret) ==
    [op |-> "generate_captions", topic |-> topic, tone |-> tone, platform |-> platform,
     count |-> count, replies |-> replies, ret |-> ret]

\* caption_generator.generate_captions(topic, tone, platform, count), given
\* for every round the reply of the client and what add_emojis drew
GenerateCaptions(topic, tone, platform, count, replies, draws) ==
    /\ calls = <<>>
    /\ calls' = <<CaptionsCall(topic, tone, platform, count, replies,
                    generate_captions(CaptionGenerator_init, topic, tone, platform, count,
                                      replies, draws))>>
    /\ UNCHANGED <<analyzers, caption, content, frame>>

ScriptCall(topic, audience, content_type, reply, ret) ==
    [op |-> "generate_script_with_ai", topic |-> topic, audience |-> audience,
     content_type |-> content_type, reply |-> reply, ret |-> ret]

\* script_generator.generate_script_with_ai(topic, audience, content_type),
\* with every reply of the client and every draw of random.choice
GenerateScriptWithAi(topic, audience, content_type) ==
    /\ calls = <<>>
    /\ \E reply \in Replies,
          hook_template \in script_hooks(ScriptGenerator_init, content_type),
          cta_template \in script_ctas(ScriptGenerator_init, audience),
          thread_hook_template \in thread_hooks(ScriptGenerator_init) :
            calls' = <<ScriptCall(topic, audience, content_type, reply,
                        generate_script_with_ai(ScriptGenerator_init, topic, audience, content_type,
                            reply, hook_template, cta_template, thread_hook_template))>>
    /\ UNCHANGED <<analyzers, caption, content, frame>>

NextGenerators ==
    \/ \E topic \in Topics, tone \in Tones, platform \in CaptionPlatforms :
         \E count \in CaptionCounts(platform) :
            \E replies \in [1..count -> Replies], draws \in [1..count -> DrawsMade(platform)] :
                GenerateCaptions(topic, tone, platform, count, replies, draws)
    \/ \E topic \in Topics, audience \in Audiences, content_type \in ContentTypes :
            GenerateScriptWithAi(topic, audience, content_type)

SpecGenerators == InitGenerators /\ [][NextGenerators]_vars

\* Runs of generate_captions alone, one call per run, over the outcomes a round
\* of its loop can have: a completion that is accepted, one that is too short
\* after the clean-up, a failure message that is rejected, and a completion
\* that is no text, on which caption.lower() raises inside the try.
ShortCompletion ==
    Response(200, TRUE, <<("generated_text" :> <<"S","o"," ","t","r","u","e","!">>)>>)
CompletionOutcomes ==
    {GoodCompletion, ShortCompletion, Response(503, FALSE, <<>>),
     Response(200, TRUE, <<("generated_text" :> ListOfText)>>)}

NextCaptions ==
    \E topic \in Topics, tone \in Tones, platform \in CaptionPlatforms :
        \E count \in CaptionCounts(platform) :
            \E replies \in [1..count -> CompletionOutcomes],
               draws \in [1..count -> DrawsMade(platform)] :
                GenerateCaptions(topic, tone, platform, count, replies, draws)

SpecCaptions == InitGenerators /\ [][NextCaptions]_vars

\* Runs of the hashtag generator of the composer: one call per run.
InitHashtags ==
    /\ analyzers = NewAnalyzers
    /\ caption = <<>>
    /\ content \in HashtagContents
    /\ calls = <<>>
    /\ frame = NoFrame

\* converter._generate_hashtags(content, platform), with every listing of the
\* hashtag set
GenerateHashtags(platform) ==
    /\ calls = <<>>
    /\ \E ret \in _generate_hashtags(BlogToSocialConverter_init, content, platform) :
            calls' = <<[op |-> "_generate_hashtags", content |-> content, platform |-> platform,
                        ret |-> ret]>>
    /\ UNCHANGED <<analyzers, caption, content, frame>>

NextHashtags == \E platform \in ComposerPlatforms : GenerateHashtags(platform)

SpecHashtags == InitHashtags /\ [][NextHashtags]_vars

\* Runs of _create_single_post, one call per run, its trimming loop taken one
\* statement at a time.  The call runs in the thread of its caller, so a
\* statement that can be run is run.
SinglePostCall(key_points, title, platform, voice, built, ret) ==
    [op |-> "_create_single_post", key_points |-> key_points, title |-> title,
     platform |-> platform, voice |-> voice, built |-> built, ret |-> ret]

\* lines 300-324: the draws of random.choice and the content as built
EnterSinglePost(key_points, title, platform, voice) ==
    /\ calls = <<>>
    /\ frame.pc = "idle"
    /\ \E intro \in Range(voice_templates[voice].intro_phrases),
          conclusion \in Range(voice_templates[voice].conclusion_phrases),
          cta \in Range(voice_templates[voice].cta_phrases) :
            LET built == single_post_content(key_points, title, platform, intro, conclusion, cta)
            IN  frame' = [pc |-> "while", key_points |-> key_points, title |-> title,
                          platform |-> platform, voice |-> voice, built |-> built, content |-> built,
                          lines |-> <<>>,
                          optimal_max |-> BlogToSocialConverter_init.platform_specs[platform].optimal_chars[2]]
    /\ UNCHANGED <<analyzers, caption, content, calls>>

\* lines 327-329: if len(content) > optimal_max, and
\* while len(content) > optimal_max and '\n\n' in content
TestLoop ==
    /\ frame.pc = "while"
    /\ frame' = [frame EXCEPT !.pc =
            IF Len(frame.content) > frame.optimal_max /\ Contains(frame.content, <<"\n","\n">>)
            THEN "split" ELSE "trimmed"]
    /\ UNCHANGED <<analyzers, caption, content, calls>>

\* line 330: lines = content.split('\n\n')
SplitContent ==
    /\ frame.pc = "split"
    /\ frame' = [frame EXCEPT !.lines = split_blocks(frame.content), !.pc = "if"]
    /\ UNCHANGED <<analyzers, caption, content, calls>>

\* lines 331-333: lines.pop(-3); content = '\n\n'.join(lines)
PopBlock ==
    /\ frame.pc = "if"
    /\ Len(frame.lines) > 3
    /\ frame' = [frame EXCEPT !.lines = pop_third_from_last(frame.lines),
                              !.content = join(<<"\n","\n">>, pop_third_from_last(frame.lines)),
                              !.pc = "while"]
    /\ UNCHANGED <<analyzers, caption, content, calls>>

\* lines 334-335: break
BreakLoop ==
    /\ frame.pc = "if"
    /\ ~(Len(frame.lines) > 3)
    /\ frame' = [frame EXCEPT !.pc = "trimmed"]
    /\ UNCHANGED <<analyzers, caption, content, calls>>

\* lines 337-360: the hashtags are generated and the post is returned
ReturnSinglePost ==
    /\ frame.pc = "trimmed"
    /\ \E hashtags \in _generate_hashtags(BlogToSocialConverter_init,
                                          hashtag_source(frame.title, frame.key_points), frame.platform) :
            calls' = <<SinglePostCall(frame.key_points, frame.title, frame.platform, frame.voice,
                        frame.built,
                        SocialPost(title_case(frame.platform), frame.content, hashtags, "single_post",
                                   single_post_tips(frame.platform)))>>
    /\ frame' = NoFrame
    /\ UNCHANGED <<analyzers, caption, content>>

NextSinglePost ==
    \/ \E key_points \in SinglePostKeyPoints, title \in SinglePostTitles,
           platform \in ComposerPlatforms, voice \in Voices :
            EnterSinglePost(key_points, title, platform, voice)
    \/ TestLoop
    \/ SplitContent
    \/ PopBlock
    \/ BreakLoop
    \/ ReturnSinglePost

SpecSinglePost ==
    /\ InitPosts /\ [][NextSinglePost]_vars
    /\ WF_vars(TestLoop) /\ WF_vars(SplitContent) /\ WF_vars(PopBlock) /\ WF_vars(BreakLoop)

(***************************************************************************)
(* Properties.                                                             *)
(***************************************************************************)
Analyses == {k \in 1..Len(calls) : calls[k].op = "analyze_content"}
FeatureCalls == {k \in 1..Len(calls) : calls[k].op = "extract_features"}
KeyPointCalls == {k \in 1..Len(calls) : calls[k].op = "extract_key_points"}

Has(list, text) == \E k \in 1..Len(list) : list[k].text = text

\* C1: the engagement_score of every analysis is at least 0 and at most 100.
C1_EngagementWithin0And100 ==
    \A k \in Analyses : calls[k].ret.engagement_score >= 0 /\ calls[k].ret.engagement_score <= 100

\* C2: readability_score >= 0 and platform_score >= 0 in every analysis.
C2_PenaltyScoresNotNegative ==
    \A k \in Analyses : calls[k].ret.readability_score >= 0 /\ calls[k].ret.platform_score >= 0

\* an analysis in which both penalty-based scores were lowered
C2_Witness ==
    \E k \in Analyses :
        /\ calls[k].ret.readability_score < 100
        /\ calls[k].ret.platform_score < 100
        /\ Has(calls[k].ret.improvements, "Avoid excessive punctuation (!!!, ???)")

\* C3 as stated: none of the three sub-scores of an analysis exceeds 100.
C3_SubScoresAtMost100 ==
    \A k \in Analyses :
        /\ calls[k].ret.readability_score <= 100
        /\ calls[k].ret.engagement_score <= 100
        /\ calls[k].ret.platform_score <= 100

\* C3 as amended: engagement_score and platform_score never exceed 100;
\* readability_score never exceeds 105, and it exceeds 100 only for a caption
\* of more than one line.
C3_SubScoreCeilings ==
    \A k \in Analyses :
        /\ calls[k].ret.engagement_score <= 100
        /\ calls[k].ret.platform_score <= 100
        /\ calls[k].ret.readability_score <= 105
        /\ calls[k].ret.readability_score > 100 => \E i \in 1..Len(calls[k].caption) : calls[k].caption[i] = "\n"

\* an analysis of a caption of several lines whose readability_score is 105
C3_Witness ==
    \E k \in Analyses :
        /\ calls[k].ret.readability_score = 105
        /\ Has(calls[k].ret.strengths, "Good use of line breaks for structure")

\* C4: overall_score is 0.30 * readability_score + 0.40 * engagement_score +
\* 0.30 * platform_score of the same result, neither clamped nor rounded
\* (in tenths: 3 r + 4 e + 3 p).
C4_OverallIsWeightedSum ==
    \A k \in Analyses :
        calls[k].ret.overall_score_x10 =
            3 * calls[k].ret.readability_score + 4 * calls[k].ret.engagement_score
            + 3 * calls[k].ret.platform_score

\* an analysis whose readability_score is above 100 and whose overall_score
\* is no whole number
C4_Witness ==
    \E k \in Analyses :
        /\ calls[k].ret.readability_score > 100
        /\ calls[k].ret.overall_score_x10 % 10 # 0
        /\ calls[k].ret.engagement_score # calls[k].ret.readability_score

SameArguments(j, k) ==
    /\ calls[j].caption = calls[k].caption
    /\ calls[j].image_description = calls[k].image_description
    /\ calls[j].platform = calls[k].platform

\* C5: two analyze_content calls with the same caption, image description and
\* platform return equal results, whichever analyzer serves them and whatever
\* was analysed in between.
C5_SameArgumentsSameResult ==
    \A j \in Analyses, k \in Analyses : SameArguments(j, k) => calls[j].ret = calls[k].ret

\* the same arguments analysed by the two analyzers, with another analysis
\* between the two calls
C5_Witness ==
    /\ Len(calls) = 3
    /\ SameArguments(1, 3)
    /\ ~SameArguments(1, 2)
    /\ calls[1].analyzer # calls[3].analyzer
    /\ calls[2].analyzer = calls[3].analyzer
    /\ Len(calls[1].ret.improvements) > 0
    /\ Len(calls[1].ret.strengths) > 0

AllCountsZero(f) ==
    /\ f.word_count = 0 /\ f.character_count = 0 /\ f.sentence_count = 0
    /\ f.emoji_count = 0 /\ f.hashtag_count = 0 /\ f.mention_count = 0
    /\ f.url_count = 0 /\ f.question_marks = 0 /\ f.exclamation_marks = 0

\* C6: extract_features of the empty string returns every count 0 and both
\* flags false; for every text question_present holds exactly when
\* question_marks > 0.
C6_FeaturesOfEmptyText ==
    \A k \in FeatureCalls :
        /\ calls[k].text = <<>> =>
              /\ AllCountsZero(calls[k].ret)
              /\ ~calls[k].ret.cta_present
              /\ ~calls[k].ret.question_present
        /\ calls[k].ret.question_present <=> calls[k].ret.question_marks > 0

\* extract_features has returned for the empty string
C6_Witness ==
    \E k \in FeatureCalls : calls[k].text = <<>> /\ DOMAIN calls[k].ret # {}

\* the number of pieces of the text between runs of terminators whose
\* stripped length is above 20
QualifyingCount(pieces) == Cardinality({m \in 1..Len(pieces) : Len(strip(pieces[m])) > 20})

AtMostMaxPointsAllLong(call) ==
    call.max_points >= 0 =>
        /\ Len(call.ret) <= call.max_points
        /\ \A a \in 1..Len(call.ret) : Len(strip(call.ret[a])) > 20

\* C7: for max_points >= 0, extract_key_points returns at most max_points
\* sentences, each of stripped length above 20.
C7_AtMostMaxPointsAllLong == \A k \in KeyPointCalls : AtMostMaxPointsAllLong(calls[k])

\* a call that filled all its max_points slots from a text that has more
\* qualifying sentences than that and a fragment too short to qualify
C7_Witness ==
    \E k \in KeyPointCalls :
        /\ calls[k].max_points >= 1
        /\ Len(calls[k].ret) = calls[k].max_points
        /\ QualifyingCount(split_sentences(content)) > calls[k].max_points
        /\ Len(split_sentences(content)) > QualifyingCount(split_sentences(content))

RankedStably(call, sentences) ==
    LET score(a) == sentence_score(sentences, call.picked[a])
    IN  \A a \in 1..Len(call.picked), b \in 1..Len(call.picked) :
            a < b =>
                /\ score(a) >= score(b)
                /\ score(a) = score(b) => call.picked[a] < call.picked[b]

TieGoesToFirst(call, sentences) ==
    LET returned == {call.picked[a] : a \in 1..Len(call.picked)}
    IN  call.max_points >= 0 =>
            \A j \in (0..(Len(sentences) - 1)) \ returned, i \in returned :
                sentence_score(sentences, j) = sentence_score(sentences, i) => i < j

\* C8: the returned sentences are in order of non-increasing score, sentences
\* of equal score in the order they have in the text, and a sentence left out
\* with the score of a returned one comes later in the text than it.
C8_StableDescendingOrder ==
    \A k \in KeyPointCalls :
        /\ RankedStably(calls[k], qualifying_sentences(content))
        /\ TieGoesToFirst(calls[k], qualifying_sentences(content))

TiedPair(call, sentences) ==
    /\ Len(call.picked) >= 2
    /\ call.max_points >= 2
    /\ \E a \in 1..(Len(call.picked) - 1) :
            sentence_score(sentences, call.picked[a]) = sentence_score(sentences, call.picked[a + 1])
    /\ \E j \in 0..(Len(sentences) - 1) :
            /\ \A a \in 1..Len(call.picked) : call.picked[a] # j
            /\ sentence_score(sentences, j) = sentence_score(sentences, call.picked[Len(call.picked)])

\* a call that returned two sentences of equal score and left out a third
\* sentence that ties with the last one returned
C8_Witness == \E k \in KeyPointCalls : TiedPair(calls[k], qualifying_sentences(content))

ExactlyTheTop(call, pieces, sentences) ==
    LET n == QualifyingCount(pieces)
        returned == {call.picked[a] : a \in 1..Len(call.picked)}
    IN  /\ call.content = <<>> => call.ret = <<>>
        /\ call.max_points >= 0 =>
            /\ Len(call.ret) = Min(call.max_points, n)
            /\ Len(call.picked) = Len(call.ret)
            /\ returned \subseteq 0..(n - 1)
            /\ Cardinality(returned) = Len(call.ret)
            /\ \A a \in 1..Len(call.ret) :
                    /\ call.ret[a] = sentences[call.picked[a] + 1]
                    /\ \E m \in 1..Len(pieces) : strip(pieces[m]) = call.ret[a] /\ Len(call.ret[a]) > 20
            /\ \A j \in (0..(n - 1)) \ returned, i \in returned :
                    sentence_score(sentences, j) <= sentence_score(sentences, i)

\* C9: for max_points >= 0, extract_key_points returns exactly
\* min(max_points, n) sentences, n the number of fragments of stripped length
\* above 20 (none for the empty text); they are distinct qualifying fragments,
\* and no fragment left out has a higher score than a returned one.
C9_ExactlyTheTopSentences ==
    \A k \in KeyPointCalls :
        ExactlyTheTop(calls[k], split_sentences(content), qualifying_sentences(content))

\* a call with 0 < max_points < n that left out a sentence of lower score
C9_Witness ==
    \E k \in KeyPointCalls :
        /\ calls[k].max_points > 0
        /\ calls[k].max_points < QualifyingCount(split_sentences(content))
        /\ Len(calls[k].ret) = calls[k].max_points
        /\ \E j \in 0..(Len(qualifying_sentences(content)) - 1) :
                sentence_score(qualifying_sentences(content), j)
                    < sentence_score(qualifying_sentences(content), calls[k].picked[Len(calls[k].picked)])

ScenarioAnalyses ==
    {k \in Analyses : /\ calls[k].caption = ScenarioCaption
                      /\ calls[k].platform = twitter
                      /\ calls[k].image_description = <<>>}

ScenarioCommon(r) ==
    /\ Has(r.improvements, "Avoid excessive punctuation (!!!, ???)")
    /\ \E m \in 1..Len(r.strengths) :
            r.strengths[m] = Msg("Uses {high_emotion_count} high-impact emotional words", <<>>, 2, 0)
    /\ r.cta_present /\ Has(r.strengths, "Includes clear call-to-action")
    /\ r.question_present /\ Has(r.strengths, "Includes question to boost engagement")
    /\ r.engagement_score = 20 + 20 + 15
    /\ r.overall_score_x10 = 3 * r.readability_score + 4 * r.engagement_score + 3 * r.platform_score

\* C10 as stated: the analysis of the scenario caption on twitter applies the
\* ALL-CAPS penalty and the excessive-punctuation penalty, notes the two
\* high-impact words, adds 20 for the CTA and 15 for the question, and its
\* overall_score is the weighted sum.
C10_ScenarioWithCapsPenalty ==
    \A k \in ScenarioAnalyses :
        /\ ScenarioCommon(calls[k].ret)
        /\ Has(calls[k].ret.improvements, "Avoid excessive ALL CAPS - it appears aggressive")
        /\ calls[k].ret.readability_score = 100 - 20 - 15

\* C10 as amended: the one ALL-CAPS token brings no ALL-CAPS penalty (and no
\* capitalization strength); the excessive-punctuation penalty alone makes
\* readability_score 85; the rest is as stated, and overall_score is 74.5.
C10_ScenarioWithoutCapsPenalty ==
    \A k \in ScenarioAnalyses :
        /\ ScenarioCommon(calls[k].ret)
        /\ ~Has(calls[k].ret.improvements, "Avoid excessive ALL CAPS - it appears aggressive")
        /\ ~Has(calls[k].ret.strengths, "Good use of capitalization")
        /\ calls[k].ret.readability_score = 100 - 15
        /\ calls[k].ret.overall_score_x10 = 745

\* the scenario caption has been analysed for twitter
C10_Witness ==
    \E k \in ScenarioAnalyses : CountCapsWords(calls[k].caption) = 1 /\ calls[k].ret.readability_score = 85

ThreadCalls == {k \in 1..Len(calls) : calls[k].op = "create_platform_post" /\ calls[k].post_type = "thread"}

RetweetLine == <<"U+267B","U+FE0F"," ","R","e","t","w","e","e","t"," ","t","h","e"," ","f","i","r","s","t"," ","t","w","e","e","t"," ","i","f"," ","t","h","i","s"," ","w","a","s"," ","h","e","l","p","f","u","l","!">>

\* a key point as a thread shows it
Shown(point) == IF Len(point) > 200 THEN SubSeq(point, 1, 197) \o <<".",".",".">> ELSE point

ThreadOfFirstSeven(call) ==
    LET blocks == split_blocks(call.ret.content)
    IN  Len(call.key_points) >= 7 =>
            /\ Len(blocks) = 10
            /\ \A k \in 1..7 :
                    blocks[k + 1] = str(k + 1) \o <<"/"," ">> \o Shown(call.key_points[k])
            /\ \A k \in 8..Len(call.key_points) : ~Contains(call.ret.content, call.key_points[k])
            /\ blocks[10] = RetweetLine

\* C11: a twitter thread of 8 key points (of 7 or more) shows exactly the
\* first 7, in input order, as the fragments numbered 2/ to 8/ after the intro,
\* shows no later key point, and ends with the fixed retweet line.
C11_ThreadShowsFirstSeven == \A k \in ThreadCalls : ThreadOfFirstSeven(calls[k])

\* a thread has been composed from 8 key points
C11_Witness ==
    \E k \in ThreadCalls :
        /\ Len(calls[k].key_points) = 8
        /\ Contains(calls[k].ret.content, <<"8","/"," ">> \o calls[k].key_points[7])

WellFormedProfile(g) ==
    /\ g.optimal_length[1] <= g.optimal_length[2]
    /\ g.optimal_hashtags[1] <= g.optimal_hashtags[2]
    /\ g.optimal_hashtags[2] <= g.max_hashtags

\* C12: in every analyzer, at every moment, each of the five profiles has
\* optimal_length.min <= optimal_length.max and optimal_hashtags.min <=
\* optimal_hashtags.max <= max_hashtags, and every profile value is what the
\* constructor set: no call changes it.
C12_ProfilesWellFormedAndFixed ==
    \A a \in Analyzers :
        /\ DOMAIN analyzers[a].platform_guidelines = {instagram, facebook, twitter, linkedin, tiktok}
        /\ \A p \in DOMAIN analyzers[a].platform_guidelines :
                WellFormedProfile(analyzers[a].platform_guidelines[p])
        /\ analyzers[a] = ContentHealthAnalyzer_init

\* one analyzer has analysed a caption for a known platform and for an
\* unknown one
C12_Witness ==
    \E j \in Analyses, k \in Analyses :
        /\ j < k
        /\ calls[j].analyzer = calls[k].analyzer
        /\ calls[j].platform = twitter
        /\ calls[k].platform = myspace
        /\ calls[j].ret.hashtag_count > 0

KnownPlatforms == DOMAIN platform_guidelines

ForInstagram(call) ==
    analyze_content(ContentHealthAnalyzer_init, call.caption, call.image_description, instagram)

\* C13: an analysis for a platform that is none of the five profiles returns
\* (it does not raise), and its platform_score and overall_score are those of
\* the analysis of the same caption and image description for instagram.
C13_UnknownPlatformScoredAsInstagram ==
    \A k \in Analyses :
        lower(calls[k].platform) \notin KnownPlatforms =>
            /\ calls[k].ret.platform_score = ForInstagram(calls[k]).platform_score
            /\ calls[k].ret.overall_score_x10 = ForInstagram(calls[k]).overall_score_x10

\* an analysis for an unknown platform whose platform_score carries a penalty
\* and is not what the tiktok profile would give
C13_Witness ==
    \E k \in Analyses :
        /\ calls[k].platform = myspace
        /\ calls[k].ret.platform_score < 100
        /\ calls[k].ret.platform_score #
              analyze_content(ContentHealthAnalyzer_init, calls[k].caption,
                              calls[k].image_description, tiktok).platform_score

ApiCalls == {k \in 1..Len(calls) : calls[k].op = "/analyze"}

\* C14: a GET or POST /analyze request whose platform, lower-cased, is no
\* known profile is answered with status 400, and analyze_content is not
\* called for it.
C14_UnknownPlatformRejectedWith400 ==
    \A k \in ApiCalls :
        lower(calls[k].platform) \notin KnownPlatforms =>
            /\ calls[k].response.analysed = <<>>
            /\ calls[k].response.status = 400

CaptionCalls == {k \in 1..Len(calls) : calls[k].op = "generate_captions"}
ScriptCalls == {k \in 1..Len(calls) : calls[k].op = "generate_script_with_ai"}

\* the request failed: it brought no response of status 200
RequestFailed(reply) == reply.kind # "response" \/ reply.status_code # 200

\* the message the client returns for a failed request
FailureMessage(reply) == generate_text(CaptionGenerator_init, "gpt2", <<>>, 80, reply)

\* C15: whatever the request of the client did, no caption of
\* generate_captions and no script of generate_script_with_ai holds the
\* failure message the client produced for it.
C15_FailureMessageNeverReturned ==
    /\ \A k \in CaptionCalls : \A r \in 1..Len(calls[k].ret) :
            RequestFailed(calls[k].replies[r]) =>
                ~Contains(calls[k].ret[r], FailureMessage(calls[k].replies[r]))
    /\ \A k \in ScriptCalls :
            RequestFailed(calls[k].reply) /\ ~IsKeyError(calls[k].ret) =>
                ~Contains(calls[k].ret, FailureMessage(calls[k].reply))

\* how often a message with this text is in the list
CountOf(list, text) == Cardinality({k \in 1..Len(list) : list[k].text = text})

GoodHashtags == "Good hashtag count for {platform}"
FewHashtags == "Add more hashtags. Use {optimal_hashtag_min}-{optimal_hashtag_max} for {platform}"
ManyHashtags == "Too many hashtags for {platform}. Maximum: {max_hashtags}"

\* what the checks of calculate_platform_score other than the hashtag check
\* took from the score, read from the issues they left
OtherPlatformPenalties(improvements) ==
    (IF Has(improvements, "Too short for {platform}. Aim for {optimal_min}-{optimal_max} characters") THEN 15 ELSE 0)
    + (IF Has(improvements, "Too long for {platform}. Aim for {optimal_min}-{optimal_max} characters") THEN 10 ELSE 0)
    + (IF Has(improvements, "Limit emojis for {platform} - use sparingly") THEN 10 ELSE 0)
    + (IF Has(improvements, "Add call-to-action - important for {platform}") THEN 15 ELSE 0)

\* the hashtag check of an analysis took this penalty and left this many
\* messages of each kind
HashtagOutcome(call, penalty, good, few, many) ==
    /\ 100 - OtherPlatformPenalties(call.ret.improvements) - call.ret.platform_score = penalty
    /\ CountOf(call.ret.strengths, GoodHashtags) = good
    /\ CountOf(call.ret.improvements, FewHashtags) = few
    /\ CountOf(call.ret.improvements, ManyHashtags) = many

ProfileOf(call) ==
    get(analyzers[call.analyzer].platform_guidelines, lower(call.platform),
        analyzers[call.analyzer].platform_guidelines[instagram])

\* C16: with [lo, hi] the optimal range and max_hashtags the ceiling of the
\* profile, the hashtag check of calculate_platform_score adds one strength and
\* no penalty for a count in [lo, hi], takes 10 with one issue for a count
\* below lo, takes 20 with one issue for a count above max_hashtags, and changes
\* neither the score nor a message list for hi < count <= max_hashtags; at most
\* one of the four cases holds of a count.
C16_HashtagCheckOutcomes ==
    \A k \in Analyses :
        LET g == ProfileOf(calls[k])
            lo == g.optimal_hashtags[1]
            hi == g.optimal_hashtags[2]
            count == calls[k].ret.hashtag_count
            in_range == lo <= count /\ count <= hi
            below == count < lo
            above == count > g.max_hashtags
            between == hi < count /\ count <= g.max_hashtags
        IN  /\ in_range => HashtagOutcome(calls[k], 0, 1, 0, 0)
            /\ below => HashtagOutcome(calls[k], 10, 0, 1, 0)
            /\ above => HashtagOutcome(calls[k], 20, 0, 0, 1)
            /\ between => HashtagOutcome(calls[k], 0, 0, 0, 0)
            /\ Cardinality({c \in {"in_range", "below", "above", "between"} :
                    \/ c = "in_range" /\ in_range
                    \/ c = "below" /\ below
                    \/ c = "above" /\ above
                    \/ c = "between" /\ between}) <= 1

\* a caption with more hashtags than the optimal range of the profile and no
\* more than its ceiling has been analysed, and another check took a penalty
C16_Witness ==
    \E k \in Analyses :
        /\ ProfileOf(calls[k]).optimal_hashtags[2] < calls[k].ret.hashtag_count
        /\ calls[k].ret.hashtag_count <= ProfileOf(calls[k]).max_hashtags
        /\ calls[k].ret.platform_score < 100
        /\ HashtagOutcome(calls[k], 0, 0, 0, 0)

HashtagCalls == {k \in 1..Len(calls) : calls[k].op = "_generate_hashtags"}

\* the places where the hashtags of a returned string start, and the hashtag
\* that starts at such a place
TagStarts(s) == RunStarts(NotMask(s, {" "}))
TagAt(s, i) == SubSeq(s, i, RunEnd(NotMask(s, {" "}), i))

\* the topic with this key is matched by a word of at least 4 characters of
\* the lower-cased content: the key is in the word or the word in the key
TopicMatched(key, content_) ==
    \E word \in hashtag_words(content_) :
        /\ Len(word) >= 4
        /\ Contains(word, key) \/ Contains(key, word)

FromMatchedTopic(tag, content_) ==
    \E k \in 1..Len(hashtag_map) :
        /\ TopicMatched(hashtag_map[k].key, content_)
        /\ tag \in {hashtag_map[k].tags[1], hashtag_map[k].tags[2]}

FromGeneric(tag, platform) ==
    tag \in {generic_hashtags[platform][1], generic_hashtags[platform][2]}

\* C17: for a known platform, _generate_hashtags returns at most
\* optimal_hashtags.max hashtags of the platform, no two of them the same, and
\* each is one of the first 2 tags of a topic matched by a content word of
\* length >= 4 (the key in the word or the word in the key) or one of the
\* first 2 generic tags of the platform.
C17_HashtagsBoundedDistinctAndSourced ==
    \A k \in HashtagCalls :
        LET ret == calls[k].ret
            starts == TagStarts(ret)
        IN  /\ Cardinality(starts) <= platform_specs[calls[k].platform].optimal_hashtags[2]
            /\ \A i \in starts, j \in starts : i # j => TagAt(ret, i) # TagAt(ret, j)
            /\ \A i \in starts :
                    \/ FromMatchedTopic(TagAt(ret, i), calls[k].content)
                    \/ FromGeneric(TagAt(ret, i), calls[k].platform)

\* more hashtags were collected than the platform allows, and the returned
\* string holds as many as allowed, one of a matched topic among them
C17_Witness ==
    \E k \in HashtagCalls :
        /\ Cardinality(hashtag_pool(calls[k].content, calls[k].platform))
                > platform_specs[calls[k].platform].optimal_hashtags[2]
        /\ Cardinality(TagStarts(calls[k].ret)) = platform_specs[calls[k].platform].optimal_hashtags[2]
        /\ \E i \in TagStarts(calls[k].ret) : FromMatchedTopic(TagAt(calls[k].ret, i), calls[k].content)

SinglePostCalls == {k \in 1..Len(calls) : calls[k].op = "_create_single_post"}

\* the returned content fits the optimal length of the platform or has fewer
\* than 4 blocks
FitsOrFewBlocks ==
    \A k \in SinglePostCalls :
        \/ Len(calls[k].ret.content) <= platform_specs[calls[k].platform].optimal_chars[2]
        \/ Len(split_blocks(calls[k].ret.content)) < 4

\* an iteration of the loop leaves the blocks of the content but the third
\* from last, in their order
RemovesThirdFromLast ==
    frame.pc = "if" /\ frame'.pc = "while" =>
        LET before == split_blocks(frame.content)
            after == split_blocks(frame'.content)
        IN  /\ Len(after) = Len(before) - 1
            /\ \A k \in 1..Len(after) :
                    after[k] = IF k < Len(before) - 2 THEN before[k] ELSE before[k + 1]

InLoop == frame.pc \in {"while", "split", "if"}

\* C18: the trimming loop of _create_single_post terminates; the content it
\* returns is no longer than the upper bound of optimal_chars of the platform
\* or has fewer than 4 blocks separated by blank lines; and each iteration
\* removes exactly one block, the third from last.
C18_TrimLoopTerminates ==
    /\ []FitsOrFewBlocks
    /\ [][RemovesThirdFromLast]_vars
    /\ (InLoop ~> frame.pc = "trimmed")

\* a post was returned after the loop removed blocks: it fits and still has
\* at least 4 blocks
C18_Witness ==
    \E k \in SinglePostCalls :
        /\ calls[k].ret.content # calls[k].built
        /\ Len(calls[k].built) > platform_specs[calls[k].platform].optimal_chars[2]
        /\ Len(calls[k].ret.content) <= platform_specs[calls[k].platform].optimal_chars[2]
        /\ Len(split_blocks(calls[k].ret.content)) >= 4

\* what the steps of calculate_engagement_score other than the emotional words
\* added to the score, read from the notes they left
OtherEngagement(ret) ==
    (IF Has(ret.strengths, "Includes question to boost engagement") THEN 15 ELSE 0)
    + (IF Has(ret.strengths, "Includes clear call-to-action") THEN 20 ELSE 0)
    + (IF Has(ret.strengths, "Good emoji usage for visual appeal") THEN 10 ELSE 0)
    - (IF Has(ret.improvements, "Too many emojis - use 3-5 for best results") THEN 5 ELSE 0)
    + (IF Has(ret.strengths, "Good text-image alignment") THEN 15 ELSE 0)

EmotionalContribution(call) == call.ret.engagement_score - OtherEngagement(call.ret)

\* the words of the list that occur in the lower-cased caption
Occurring(words, caption_) == {w \in Range(words) : Contains(lower(caption_), w)}

\* C19: with H the number of the 8 high-impact words and M the number of the
\* 7 medium-impact words that occur in the lower-cased caption as substrings,
\* the emotional words add min(10*H + 5*M, 30) to the engagement score: never
\* more than 30, and a word counts once however often it occurs.
C19_EmotionalContribution ==
    \A k \in Analyses :
        LET words == analyzers[calls[k].analyzer].engagement_words
            H == Cardinality(Occurring(words.high, calls[k].caption))
            M == Cardinality(Occurring(words.medium, calls[k].caption))
        IN  /\ Cardinality(Range(words.high)) = 8
            /\ Cardinality(Range(words.medium)) = 7
            /\ EmotionalContribution(calls[k]) = Min(10 * H + 5 * M, 30)
            /\ EmotionalContribution(calls[k]) <= 30

\* a caption in which words worth 60 occur, one of them three times, has been
\* analysed, and they added 30
C19_Witness ==
    \E k \in Analyses :
        /\ Cardinality(Occurring(engagement_words.high, calls[k].caption)) = 5
        /\ Cardinality(Occurring(engagement_words.medium, calls[k].caption)) = 2
        /\ CountOccurrences(engagement_words.high, lower(calls[k].caption)) = 7
        /\ EmotionalContribution(calls[k]) = 30

GoodEmojis == "Good emoji usage for visual appeal"
ManyEmojis == "Too many emojis - use 3-5 for best results"
NoEmojis == "Add 2-3 relevant emojis for visual appeal"

\* what the emoji step added to the engagement score: the score less what the
\* emotional words, the question, the call-to-action and the image added
EmojiContribution(call) ==
    LET words == analyzers[call.analyzer].engagement_words
        H == Cardinality(Occurring(words.high, call.caption))
        M == Cardinality(Occurring(words.medium, call.caption))
    IN  call.ret.engagement_score
        - Min(10 * H + 5 * M, 30)
        - (IF Has(call.ret.strengths, "Includes question to boost engagement") THEN 15 ELSE 0)
        - (IF Has(call.ret.strengths, "Includes clear call-to-action") THEN 20 ELSE 0)
        - (IF Has(call.ret.strengths, "Good text-image alignment") THEN 15 ELSE 0)

\* the emoji step of an analysis added this much and left this many notes of
\* each kind
EmojiOutcome(call, added, good, many, none) ==
    /\ EmojiContribution(call) = added
    /\ CountOf(call.ret.strengths, GoodEmojis) = good
    /\ CountOf(call.ret.improvements, ManyEmojis) = many
    /\ CountOf(call.ret.improvements, NoEmojis) = none

\* C20: the emoji step of the engagement score adds 10 with a strength note
\* for 1 <= emoji_count <= 5, takes 5 with an issue note for emoji_count > 5,
\* and leaves the score as it is with an issue note for emoji_count = 0;
\* exactly one of the three cases holds of every emoji_count.
C20_EmojiStepOutcomes ==
    \A k \in Analyses :
        LET emoji_count == calls[k].ret.emoji_count
            few == 1 <= emoji_count /\ emoji_count <= 5
            many == emoji_count > 5
            none == emoji_count = 0
        IN  /\ few => EmojiOutcome(calls[k], 10, 1, 0, 0)
            /\ many => EmojiOutcome(calls[k], -5, 0, 1, 0)
            /\ none => EmojiOutcome(calls[k], 0, 0, 0, 1)
            /\ Cardinality({c \in {"few", "many", "none"} :
                    \/ c = "few" /\ few
                    \/ c = "many" /\ many
                    \/ c = "none" /\ none}) = 1

\* a caption with six emojis has been analysed: the step took 5
C20_Witness ==
    \E k \in Analyses :
        /\ calls[k].ret.emoji_count = 6
        /\ EmojiOutcome(calls[k], -5, 0, 1, 0)

CapsIssue == "Avoid excessive ALL CAPS - it appears aggressive"
CapsStrength == "Good use of capitalization"

\* what the ALL-CAPS rule added to the readability score: the score less the
\* 100 it starts from and what the other rules added or took, each read from
\* the note it leaves
CapsContribution(ret) ==
    ret.readability_score - 100
    + (IF Has(ret.improvements, "Sentences are too long. Aim for 15-20 words per sentence.") THEN 15 ELSE 0)
    + (IF Has(ret.improvements, "Too many complex words. Use simpler alternatives.") THEN 10 ELSE 0)
    + (IF Has(ret.improvements, "Avoid excessive punctuation (!!!, ???)") THEN 15 ELSE 0)
    - (IF Has(ret.strengths, "Good use of line breaks for structure") THEN 5 ELSE 0)

CapsOutcome(ret, added, issues, strengths) ==
    /\ CapsContribution(ret) = added
    /\ CountOf(ret.improvements, CapsIssue) = issues
    /\ CountOf(ret.strengths, CapsStrength) = strengths

\* C21: with n the number of all-capital words of length >= 3 of the caption,
\* the ALL-CAPS rule of calculate_readability_score takes 20 with one issue
\* exactly when n > 1, adds the capitalization strength exactly when n = 0,
\* and for n = 1 changes neither the score nor a message list.
C21_AllCapsRule ==
    \A k \in Analyses :
        LET n == CountCapsWords(calls[k].caption)
            ret == calls[k].ret
        IN  /\ n > 1 => CapsOutcome(ret, -20, 1, 0)
            /\ n = 0 => CapsOutcome(ret, 0, 0, 1)
            /\ n = 1 => CapsOutcome(ret, 0, 0, 0)

\* a caption with exactly one all-capital word has been analysed, and another
\* rule took a penalty
C21_Witness ==
    \E k \in Analyses :
        /\ CountCapsWords(calls[k].caption) = 1
        /\ calls[k].ret.readability_score < 100
        /\ CapsOutcome(calls[k].ret, 0, 0, 0)

LongSentences == "Sentences are too long. Aim for 15-20 words per sentence."
GoodSentences == "Good sentence length for readability"

\* what the sentence-length step added to the readability score: the score
\* less the 100 it starts from and what the other rules added or took, each
\* read from the note it leaves
SentenceContribution(ret) ==
    ret.readability_score - 100
    + (IF Has(ret.improvements, "Too many complex words. Use simpler alternatives.") THEN 10 ELSE 0)
    + (IF Has(ret.improvements, CapsIssue) THEN 20 ELSE 0)
    + (IF Has(ret.improvements, "Avoid excessive punctuation (!!!, ???)") THEN 15 ELSE 0)
    - (IF Has(ret.strengths, "Good use of line breaks for structure") THEN 5 ELSE 0)

SentenceOutcome(ret, added, issues, strengths) ==
    /\ SentenceContribution(ret) = added
    /\ CountOf(ret.improvements, LongSentences) = issues
    /\ CountOf(ret.strengths, GoodSentences) = strengths

\* C22: with w the word count and s the sentence count of the caption, the
\* sentence-length step of calculate_readability_score does nothing when
\* s = 0; otherwise it takes 15 with an issue when w / s > 20, adds a strength
\* when w / s <= 15, and does nothing when 15 < w / s <= 20.
C22_SentenceLengthStep ==
    \A k \in Analyses :
        LET w == calls[k].ret.word_count
            s == extract_features(calls[k].caption).sentence_count
            ret == calls[k].ret
        IN  /\ s = 0 => SentenceOutcome(ret, 0, 0, 0)
            /\ s > 0 /\ w > 20 * s => SentenceOutcome(ret, -15, 1, 0)
            /\ s > 0 /\ w <= 15 * s => SentenceOutcome(ret, 0, 0, 1)
            /\ s > 0 /\ 15 * s < w /\ w <= 20 * s => SentenceOutcome(ret, 0, 0, 0)

\* a caption of one sentence of twenty words has been analysed: the step
\* left the score and the lists alone
C22_Witness ==
    \E k \in Analyses :
        /\ calls[k].ret.word_count = 20
        /\ extract_features(calls[k].caption).sentence_count = 1
        /\ SentenceOutcome(calls[k].ret, 0, 0, 0)

\* the parts of a sentence's score other than the position point: 2 for each
\* indicator word it holds, 1 for 10 to 25 words, 1 for a number
OtherParts(sentence) ==
    2 * CountContained(key_indicators, lower(sentence))
    + (IF 10 <= WordCount(sentence) /\ WordCount(sentence) <= 25 THEN 1 ELSE 0)
    + (IF \E j \in 1..Len(sentence) : sentence[j] \in Digit THEN 1 ELSE 0)

PositionPart(entry) == entry.score - OtherParts(entry.sentence)

\* C23: the sentence at index i of the n qualifying sentences gets a position
\* point of 1 (never 2) exactly when it lies in the first 20% (i < 0.2 n) or
\* in the last 20% (i >= 0.8 n) of the sequence; the first sentence always
\* gets it, and for every n >= 5 the last sentence gets it.
C23_PositionPoint ==
    \A k \in KeyPointCalls :
        LET scored == calls[k].scored
            n == Len(scored)
        IN  \A e \in 1..n :
                LET i == e - 1
                    part == PositionPart(scored[e])
                IN  /\ part \in {0, 1}
                    /\ part = 1 <=> (5 * i < n \/ 5 * i >= 4 * n)
                    /\ i = 0 => part = 1
                    /\ (n >= 5 /\ i = n - 1) => part = 1

\* the keyword part of the score of the entry at index i of n: the score less
\* the position point (i < 0.2 n, else i > 0.8 n), the length point and the
\* number point
KeywordPart(entry, i, n) ==
    entry.score
    - (IF 5 * i < n \/ 5 * i > 4 * n THEN 1 ELSE 0)
    - (IF 10 <= WordCount(entry.sentence) /\ WordCount(entry.sentence) <= 25 THEN 1 ELSE 0)
    - (IF \E j \in 1..Len(entry.sentence) : entry.sentence[j] \in Digit THEN 1 ELSE 0)

\* C24: the keyword part of a sentence's score is 2 for every occurrence of an
\* indicator word in the lower-cased sentence, as a substring: distinct words
\* add 2 each, and a word that occurs k times adds 2 * k.
C24_KeywordPerOccurrence ==
    \A k \in KeyPointCalls :
        \A e \in 1..Len(calls[k].scored) :
            KeywordPart(calls[k].scored[e], e - 1, Len(calls[k].scored))
                = 2 * CountOccurrences(key_indicators, lower(calls[k].scored[e].sentence))

PostCalls == {k \in 1..Len(calls) : calls[k].op = "create_platform_post"}
CarouselCalls == {k \in PostCalls : calls[k].post_type = "carousel"}
PlainPostCalls == {k \in PostCalls : calls[k].post_type = "single_post"}

\* the lines of a text that are not empty, in their order
LinesOf(s) ==
    LET m == NotMask(s, {"\n"})
        starts == RunStarts(m)
    IN  [k \in 1..Cardinality(starts) |-> SubSeq(s, Nth(starts, k), RunEnd(m, Nth(starts, k)))]

\* a key point as the claim has it rendered under the limit L
Rendered(point, L) ==
    IF Len(point) <= L THEN point ELSE SubSeq(point, 1, L - 3) \o <<".",".",".">>

EndsWith(s, w) == Len(s) >= Len(w) /\ SubSeq(s, Len(s) - Len(w) + 1, Len(s)) = w

\* the k-th point of a thread is the block after the opening one and the
\* k - 1 points before it
ThreadPointsRendered(call) ==
    LET blocks == split_blocks(call.ret.content)
    IN  \A k \in 1..Min(Len(call.key_points), 7) :
            /\ blocks[k + 1] = str(k + 1) \o <<"/"," ">> \o Rendered(call.key_points[k], 200)
            /\ Len(blocks[k + 1]) - Len(str(k + 1) \o <<"/"," ">>) <= 200

\* the k-th slide of a carousel is the line after the four heading lines and
\* the k - 1 slides before it
CarouselPointsRendered(call) ==
    LET lines == LinesOf(call.ret.content)
        head(k) == <<"U+2022"," ","S","l","i","d","e"," ">> \o str(k + 1) \o <<":"," ">>
    IN  \A k \in 1..Min(Len(call.key_points), 8) :
            /\ lines[k + 4] = head(k) \o Rendered(call.key_points[k], 80)
            /\ Len(lines[k + 4]) - Len(head(k)) <= 80

\* the points a single post still shows are the blocks between the opening
\* block and the last two
SinglePostPointsRendered(call) ==
    LET blocks == split_blocks(call.ret.content)
        head(k) == IF call.platform = linkedin THEN <<"U+1F539"," ">> ELSE str(k) \o <<"."," ">>
    IN  /\ Len(blocks) - 3 <= Min(Len(call.key_points), 3)
        /\ \A k \in 1..(Len(blocks) - 3) :
            /\ blocks[k + 1] = head(k) \o Rendered(call.key_points[k], 100)
            /\ Len(blocks[k + 1]) - Len(head(k)) <= 100

\* what a composer does after its loop shows the list as it was handed in:
\* the conclusion of a single post ends with the whole first point, and the
\* hashtags of a carousel, which lists every hashtag found, hold '#health'
\* when the word stands in the part of a point that the rendering cut off
KeyPointsNotModified(call) ==
    /\ call.post_type = "single_post" /\ call.key_points # <<>> =>
            LET blocks == split_blocks(call.ret.content)
            IN  EndsWith(blocks[Len(blocks) - 1], <<":"," ">> \o call.key_points[1])
    /\ call.post_type = "carousel" /\ (\E k \in 1..Len(call.key_points) : call.key_points[k] = PointWithTail(81)) =>
            Contains(call.ret.hashtags, <<"#","h","e","a","l","t","h">>)

\* C25: the twitter thread renders a key point under the limit 200, the
\* instagram carousel under 80 and the single post under 100: a point no
\* longer than the limit L unchanged, a longer one as its first L - 3
\* characters and '...', so that no rendered point is longer than L; the list
\* key_points handed in is not modified.
C25_PointTruncation ==
    /\ \A k \in ThreadCalls : ThreadPointsRendered(calls[k])
    /\ \A k \in CarouselCalls : CarouselPointsRendered(calls[k])
    /\ \A k \in PlainPostCalls : SinglePostPointsRendered(calls[k])
    /\ \A k \in PostCalls : KeyPointsNotModified(calls[k])

\* a single post shows a point of 101 characters as 97 characters and '...'
\* and ends its conclusion with all 101
C25_Witness ==
    \E k \in PlainPostCalls :
        LET blocks == split_blocks(calls[k].ret.content)
        IN  /\ calls[k].key_points = <<KeyPoint(1), PointWithTail(101)>>
            /\ Len(blocks) = 5
            /\ blocks[3] = <<"2","."," ">> \o SubSeq(PointWithTail(101), 1, 97) \o <<".",".",".">>

StartsWith(s, w) == Len(s) >= Len(w) /\ SubSeq(s, 1, Len(w)) = w

SlideMark == <<"U+2022"," ","S","l","i","d","e"," ">>

\* the lines of a carousel that list a content slide, in their order
SlideLines(content_) == SelectSeq(LinesOf(content_), LAMBDA l : StartsWith(l, SlideMark))

\* the header 'SLIDE 2-N: Key points' with this N
SlidesHeader(N) ==
    <<"S","L","I","D","E"," ","2","-">> \o str(N) \o <<":"," ","K","e","y"," ","p","o","i","n","t","s">>

CountLines(lines, P(_)) == Cardinality({a \in 1..Len(lines) : P(lines[a])})

\* C26: for k key points the instagram carousel lists exactly min(k, 8)
\* content slides, numbered 'Slide 2' to 'Slide min(k, 8) + 1' in order, one
\* title slide and one LAST SLIDE line, and the N of its header
\* 'SLIDE 2-N: Key points' is the number of the last content slide listed.
C26_CarouselSlides ==
    \A c \in CarouselCalls :
        LET k == Len(calls[c].key_points)
            lines == LinesOf(calls[c].ret.content)
            slides == SlideLines(calls[c].ret.content)
        IN  /\ Len(slides) = Min(k, 8)
            /\ \A a \in 1..Len(slides) : StartsWith(slides[a], SlideMark \o str(a + 1) \o <<":"," ">>)
            /\ CountLines(lines, LAMBDA l : l = <<"S","L","I","D","E"," ","1",":"," ","C","o","v","e","r","/","T","i","t","l","e">>) = 1
            /\ CountLines(lines, LAMBDA l : StartsWith(l, <<"L","A","S","T"," ","S","L","I","D","E",":"," ">>)) = 1
            /\ CountLines(lines, LAMBDA l : l = SlidesHeader(Min(k, 8) + 1)) = 1

\* C27: in every twitter thread, whatever the number of key points, the
\* tweets after the opening one are numbered consecutively from 2: the
\* key-point tweets first, and the closing tweet with the call to action one
\* more than the last of them (2 when there is no key point).
C27_ThreadNumbersConsecutive ==
    \A c \in ThreadCalls :
        LET blocks == split_blocks(calls[c].ret.content)
            shown == Min(Len(calls[c].key_points), 7)
        IN  /\ Len(blocks) = shown + 3
            /\ \A j \in 2..(shown + 2) : StartsWith(blocks[j], str(j) \o <<"/"," ">>)

\* the readability score before max(0, score): 100 and what each rule added
\* or took, read from the note it left
ReadabilityUnclamped(ret) ==
    100
    - (IF Has(ret.improvements, LongSentences) THEN 15 ELSE 0)
    - (IF Has(ret.improvements, "Too many complex words. Use simpler alternatives.") THEN 10 ELSE 0)
    - (IF Has(ret.improvements, CapsIssue) THEN 20 ELSE 0)
    - (IF Has(ret.improvements, "Avoid excessive punctuation (!!!, ???)") THEN 15 ELSE 0)
    + (IF Has(ret.strengths, "Good use of line breaks for structure") THEN 5 ELSE 0)

\* the platform score before max(0, score)
PlatformUnclamped(ret) ==
    100 - OtherPlatformPenalties(ret.improvements)
    - (IF Has(ret.improvements, FewHashtags) THEN 10 ELSE 0)
    - (IF Has(ret.improvements, ManyHashtags) THEN 20 ELSE 0)

\* C28: for every caption, image description and platform the readability
\* score is within [40, 105], the platform score within [40, 100] and the
\* engagement score at most 90, so that the overall score, which is not
\* clamped, is within [22, 97.5], never above 100 and never negative; the
\* floors max(0, score) of the readability and platform scorers never bind.
C28_ScoresWithinRanges ==
    \A k \in Analyses :
        LET ret == calls[k].ret
        IN  /\ 40 <= ret.readability_score /\ ret.readability_score <= 105
            /\ 40 <= ret.platform_score /\ ret.platform_score <= 100
            /\ ret.engagement_score <= 90
            /\ 220 <= ret.overall_score_x10 /\ ret.overall_score_x10 <= 975
            /\ 0 <= ret.overall_score_x10 /\ ret.overall_score_x10 <= 1000
            /\ ret.readability_score = ReadabilityUnclamped(ret)
            /\ ret.platform_score = PlatformUnclamped(ret)

\* an analysis with the lowest of all scores: readability 40, engagement -5,
\* platform 40, overall 22
C28_Witness ==
    \E k \in Analyses :
        /\ calls[k].ret.readability_score = 40
        /\ calls[k].ret.engagement_score = -5
        /\ calls[k].ret.platform_score = 40
        /\ calls[k].ret.overall_score_x10 = 220

\* an analysis with the highest of all scores: 105, 90, 100 and overall 97.5
C28_Highest ==
    \E k \in Analyses :
        /\ calls[k].ret.readability_score = 105
        /\ calls[k].ret.engagement_score = 90
        /\ calls[k].ret.platform_score = 100
        /\ calls[k].ret.overall_score_x10 = 975

NoBlankLine(s) == ~Contains(s, <<"\n","\n">>)

DefaultConclusion == <<"Q","u","a","l","i","t","y"," ","c","o","n","t","e","n","t"," ","d","r","i","v","e","s"," ","r","e","s","u","l","t","s",".">>

\* the blocks of the content a single post returns are the intro block, the
\* first few of the rendered key points in their order, the conclusion block
\* and the call to action, each with the text it was built with
KeepsFrameBlocks(call) ==
    LET blocks == split_blocks(call.ret.content)
        template == voice_templates[call.voice]
        rendered == Min(Len(call.key_points), 3)
        kept == Len(blocks) - 3
        head(k) == IF call.platform = linkedin THEN <<"U+1F539"," ">> ELSE str(k) \o <<"."," ">>
    IN  /\ 0 <= kept /\ kept <= rendered
        /\ \E intro \in Range(template.intro_phrases) :
                blocks[1] = intro \o <<" ">>
                    \o (IF call.title # <<>> THEN lower(call.title) ELSE <<"t","h","i","s"," ","t","o","p","i","c">>)
                    \o <<".">>
        /\ \A k \in 1..kept : blocks[k + 1] = head(k) \o Rendered(call.key_points[k], 100)
        /\ \E conclusion \in Range(template.conclusion_phrases) :
                blocks[kept + 2] = conclusion \o <<":"," ">>
                    \o (IF call.key_points # <<>> THEN call.key_points[1] ELSE DefaultConclusion)
        /\ blocks[kept + 3] \in Range(template.cta_phrases)
        /\ Len(split_blocks(call.built)) = rendered + 3
        /\ Len(call.built) <= platform_specs[call.platform].optimal_chars[2] =>
                call.ret.content = call.built

\* C29: when neither the title nor a key point holds a blank line, the
\* trimming of _create_single_post leaves the intro block, the conclusion
\* block and the call to action in place: it removes key-point blocks only,
\* the last rendered one first, the blocks that remain keep their text and
\* order, and a content that fits already is returned as built.
C29_TrimKeepsFrame ==
    \A c \in SinglePostCalls :
        (NoBlankLine(calls[c].title) /\ \A k \in 1..Len(calls[c].key_points) : NoBlankLine(calls[c].key_points[k]))
            => KeepsFrameBlocks(calls[c])

\* a post of three key points without a blank line came back with its last
\* point removed and the other two in place
C29_Witness ==
    \E c \in SinglePostCalls :
        /\ Len(calls[c].key_points) = 3
        /\ \A k \in 1..3 : NoBlankLine(calls[c].key_points[k])
        /\ Len(split_blocks(calls[c].built)) = 6
        /\ Len(split_blocks(calls[c].ret.content)) = 5
        /\ KeepsFrameBlocks(calls[c])

\* the prompt of round r (from 1) of a call of generate_captions
PromptOfRound(call, r) ==
    LET variations == caption_variations(call.topic, call.tone, call.platform)
    IN  variations[((r - 1) % Len(variations)) + 1]

\* what the client returned in round r of a call of generate_captions
CompletionOfRound(call, r) ==
    generate_text(CaptionGenerator_init, "gpt2", PromptOfRound(call, r), 80, call.replies[r])

\* the template of round r of a call of generate_captions
TemplateOfRound(call, r) ==
    LET templates == caption_templates(call.topic)
        template_captions == get(templates, lower(call.tone), templates[<<"c","a","s","u","a","l">>])
    IN  template_captions[((r - 1) % Len(template_captions)) + 1]

\* the text is three different emojis of the platform joined with spaces
IsEmojiSample(text, platform) ==
    LET platform_emojis == get(caption_emojis, lower(platform), caption_emojis[instagram])
        places == 1..Len(platform_emojis)
    IN  \E a \in places : \E b \in places \ {a} : \E c \in places \ {a, b} :
            text = platform_emojis[a] \o <<" ">> \o platform_emojis[b] \o <<" ">> \o platform_emojis[c]

\* the text is the caption alone or the caption with three emojis of the
\* platform in front of it or behind it
IsCaptionOf(text, body, platform) ==
    \/ text = body
    \/ /\ EndsWith(text, <<" ">> \o body)
       /\ IsEmojiSample(SubSeq(text, 1, Len(text) - Len(body) - 1), platform)
    \/ /\ StartsWith(text, body \o <<" ">>)
       /\ IsEmojiSample(SubSeq(text, Len(body) + 2, Len(text)), platform)

\* round r raised inside the try: the client returned something that is no text
RoundRaised(call, r) == CompletionOfRound(call, r) = ListOfText

\* round r accepted the completion of the client
RoundAccepted(call, r) ==
    /\ ~RoundRaised(call, r)
    /\ generation_succeeded(CompletionOfRound(call, r))
    /\ Len(strip(replace(CompletionOfRound(call, r), PromptOfRound(call, r), <<>>))) > 10

\* the caption at place r is the generated one, a template or the ultimate fallback
GeneratedCaption(call, r) ==
    IsCaptionOf(call.ret[r],
                strip(replace(CompletionOfRound(call, r), PromptOfRound(call, r), <<>>)),
                call.platform)
TemplateCaption(call, r) == IsCaptionOf(call.ret[r], TemplateOfRound(call, r), call.platform)
UltimateCaption(call, r) == call.ret[r] = ultimate_fallback(call.topic)

\* C30: generate_captions returns a list of exactly count captions whatever
\* the completions of the rounds were (accepted, rejected or too short, or
\* raising inside the loop): round r appended one caption, at place r, which
\* is the generated text for an accepted completion, the template of the round
\* for a rejected one and the ultimate fallback for a raising one; the call
\* returns the list and raises nothing.
C30_ExactlyCountCaptions ==
    \A k \in CaptionCalls :
        /\ calls[k].ret \in Seq(Seq(STRING))
        /\ Len(calls[k].ret) = calls[k].count
        /\ \A r \in 1..calls[k].count :
                /\ RoundRaised(calls[k], r) => UltimateCaption(calls[k], r)
                /\ RoundAccepted(calls[k], r) => GeneratedCaption(calls[k], r)
                /\ ~RoundRaised(calls[k], r) /\ ~RoundAccepted(calls[k], r)
                        => TemplateCaption(calls[k], r)

\* a call for MaxCount captions in which one round raised and gave the
\* ultimate fallback and another round gave the generated caption
C30_Witness ==
    \E k \in CaptionCalls :
        /\ calls[k].count = MaxCount
        /\ Len(calls[k].ret) = MaxCount
        /\ \E r \in 1..MaxCount : RoundRaised(calls[k], r) /\ UltimateCaption(calls[k], r)
        /\ \E r \in 1..MaxCount : RoundAccepted(calls[k], r) /\ GeneratedCaption(calls[k], r)
====
